---- MODULE Spec2Model ----
(***************************************************************************)
(* Transaction wrapper (`transactional`), raw-query wrapper (`query`) and   *)
(* generic repository (BaseRepository, RepositoryHelpers) of the           *)
(* attendance service, modelled over one AsyncSession.                     *)
(*                                                                         *)
(* One call chain runs on the session: a wrapped operation is entered, its *)
(* body touches the session, calls other wrapped operations, returns or    *)
(* raises, and the wrapper finishes the invocation.  With isolation or     *)
(* readonly_tx the wrapper first takes the session's connection, which     *)
(* begins the session's transaction when none is open, and sets the        *)
(* connection up; these calls, and the session.begin() that follows them   *)
(* in the root branch, can fail.  Options not modelled: log_level, tag,    *)
(* expire_on_end, auditable (they print, or expire the loaded objects).    *)
(* session.flush/commit/rollback themselves do not fail.                   *)
(*                                                                         *)
(* Spec follows the wrapper statement by statement.  RepoSpec runs whole   *)
(* repository calls, one after the other, on a table of entities; there    *)
(* the store does not fail.  QuerySpec sets up raw-query operations and    *)
(* calls them.  GradeSpec runs create_grade requests, each on a session of *)
(* its own, against one grades table.                                      *)
(***************************************************************************)
EXTENDS Integers, Sequences, FiniteSets, TLC

\* ------------------------------------------------------------------ bounds
\* nesting depth of wrapped invocations on the session
MaxDepth == 2
\* largest `retries` option of a wrapped operation
MaxRetries == 2
\* writes the session's user issues in all
MaxWork == 2
\* options a program's wrapped operations set explicitly
MaxVary == 2
\* entity ids of the table: 1..MaxIds
MaxIds == 3
\* longest list of ids or of values passed to a repository operation
MaxLen == 3
\* largest page number requested
MaxPage == 4
\* largest page size requested
MaxSize == 2
\* most keys of a dict of fields passed to a repository operation
MaxKeys == 2
\* most create_grade requests in flight at once, each on a session of its own
MaxReqs == 2
\* most values drawn from the sequence of grades.id
MaxSeq == 3

\* ---------------------------------------------------------------- messages
\* str(exc) of the store errors, as character sequences
MsgDeadlockLower == <<"d","e","a","d","l","o","c","k">>
MsgDeadlockMixed == <<"a"," ","D","e","a","d","L","O","C","K">>
MsgDeadSpaceLock == <<"d","e","a","d"," ","l","o","c","k">>
MsgDuplicate     == <<"d","u","p">>
NoMsg            == <<>>

OperationalMessages ==
    {MsgDeadlockLower, MsgDeadlockMixed, MsgDeadSpaceLock}

\* str.lower(), on the letters the messages use
LowerChar(c) ==
    CASE c = "D" -> "d" [] c = "E" -> "e" [] c = "A" -> "a" [] c = "L" -> "l"
      [] c = "O" -> "o" [] c = "C" -> "c" [] c = "K" -> "k" [] OTHER -> c

Lower(s) == [i \in 1..Len(s) |-> LowerChar(s[i])]

\* `sub in s`
Contains(s, sub) ==
    \E i \in 1..(Len(s) - Len(sub) + 1) : SubSeq(s, i, i + Len(sub) - 1) = sub

\* "deadlock" in str(oe).lower()
IsDeadlockMessage(msg) == Contains(Lower(msg), MsgDeadlockLower)

\* -------------------------------------------------------------- exceptions
\* None, for an optional value held as a sequence of at most one element
None == <<>>

Exc(cls, message, details, instance) ==
    [cls |-> cls, message |-> message, details |-> details, instance |-> instance]

NoExc == Exc("none", NoMsg, NoMsg, None)

\* sqlalchemy.exc: OperationalError and IntegrityError derive from SQLAlchemyError
\* as do InvalidRequestError and, through ArgumentError, ObjectNotExecutableError
IsSQLAlchemyError(cls) ==
    cls \in {"SQLAlchemyError", "OperationalError", "IntegrityError",
             "InvalidRequestError", "ObjectNotExecutableError"}

\* the domain exceptions of core/exception (BaseHTTPException subclasses)
IsDomainException(cls) ==
    cls \in {"BadRequestException", "ConflictException", "DatabaseException",
             "ForbiddenException", "InvalidFieldException", "NotFoundException",
             "ServerException", "UnauthorizedException"}

\* asyncio.CancelledError derives from BaseException, everything else here
\* from Exception
IsException(cls) == cls # "CancelledError"

OperationalErrors == {Exc("OperationalError", m, NoMsg, None) : m \in OperationalMessages}

StoreErrors ==
    OperationalErrors \cup {Exc("IntegrityError", MsgDuplicate, NoMsg, None)}

DomainErrors ==
    {Exc("InvalidFieldException", NoMsg, NoMsg, None),
     Exc("NotFoundException", NoMsg, NoMsg, None),
     Exc("ConflictException", NoMsg, NoMsg, None)}

UnexpectedErrors == {Exc("ValueError", NoMsg, NoMsg, None)}

TimeoutError   == Exc("TimeoutError", NoMsg, NoMsg, None)
CancelledError == Exc("CancelledError", NoMsg, NoMsg, None)

\* ----------------------------------------------------------------- options
OptionNames ==
    {"root", "readonly", "isolation", "readonly_tx", "retries", "timeout",
     "savepoint", "auto_flush", "raise_on_empty"}

Timeouts == {<<5>>}

\* the defaults of transactional(...); an isolation level is None, the empty
\* string or a level
DefaultOptions ==
    [root |-> FALSE, readonly |-> FALSE, isolation |-> None, readonly_tx |-> FALSE,
     retries |-> 0, timeout |-> None, savepoint |-> FALSE, auto_flush |-> TRUE,
     raise_on_empty |-> FALSE]

AllOptions ==
    [root : BOOLEAN, readonly : BOOLEAN, isolation : {None, <<"">>, <<"SERIALIZABLE">>},
     readonly_tx : BOOLEAN, retries : 0..MaxRetries,
     timeout : {None} \cup Timeouts, savepoint : BOOLEAN, auto_flush : BOOLEAN,
     raise_on_empty : BOOLEAN]

\* the option records that set only the options in V explicitly
OptionsVarying(V) ==
    {o \in AllOptions : \A n \in OptionNames \ V : o[n] = DefaultOptions[n]}

\* what a body returns: None, a result that is empty but not None (an empty
\* list), or a row
Results == {"None", "empty", "row"}

\* ------------------------------------------------------- wrapper decisions
\* `if root and not tx_before`: the invocation opens and owns the transaction
RootBranch(root, tx_before) == root /\ ~tx_before

\* mutant: no savepoint is ever created
SavepointBranchNever(savepoint, tx_before) == FALSE

\* `if savepoint and tx_before`: the body runs inside session.begin_nested()
SavepointBranch(savepoint, tx_before) == savepoint /\ tx_before

\* `_execute = _run_retries if retries else _run_timeout`
UsesRetries(retries) == retries # 0

\* mutant: one retry too many
ShouldReraiseOffByOne(attempt, retries, message) ==
    attempt > retries \/ ~IsDeadlockMessage(message)

\* mutant: every operational error is retried while the budget lasts
ShouldReraiseAnyText(attempt, retries, message) == attempt >= retries

\* mutant: the retry budget is ignored
ShouldReraiseBudgetIgnored(attempt, retries, message) == ~IsDeadlockMessage(message)

\* `if attempt >= retries or "deadlock" not in str(oe).lower(): raise`
ShouldReraise(attempt, retries, message) ==
    attempt >= retries \/ ~IsDeadlockMessage(message)

\* mutant: tx_before forgotten
SelfStartedAnyOpen(tx_before, tx_after) == tx_after

\* `self_started = (not tx_before) and tx_after`
SelfStarted(tx_before, tx_after) == (~tx_before) /\ tx_after

\* mutant: a read-only operation never commits
AfterBodyReadsFlush(readonly, self_started, auto_flush) ==
    IF readonly
    THEN IF auto_flush THEN "flush" ELSE "none"
    ELSE IF self_started THEN "commit" ELSE IF auto_flush THEN "flush" ELSE "none"

\* what the wrapper does to the session after the body returned
AfterBody(readonly, self_started, auto_flush) ==
    IF readonly
    THEN IF self_started THEN "commit" ELSE IF auto_flush THEN "flush" ELSE "none"
    ELSE IF self_started THEN "commit" ELSE IF auto_flush THEN "flush" ELSE "none"

\* `except (IntegrityError, InvalidFieldException, SQLAlchemyError): raise`
ReraisedUntouched(cls) == cls = "InvalidFieldException" \/ IsSQLAlchemyError(cls)

\* `except Exception` ... `if not tx_before and session.in_transaction()`
RollsBack(cls, tx_before, in_transaction) ==
    /\ ~ReraisedUntouched(cls)
    /\ IsException(cls)
    /\ ~tx_before
    /\ in_transaction

\* mutant: the option is ignored
RejectsEmptyNever(raise_on_empty, res) == FALSE

\* `raise_on_empty and res is None`
RejectsEmpty(raise_on_empty, res) == raise_on_empty /\ res = "None"

\* str() of a one-digit number, as f"{n}" formats it
DigitChar(n) ==
    CASE n = 0 -> "0" [] n = 1 -> "1" [] n = 2 -> "2" [] n = 3 -> "3" [] n = 4 -> "4"
      [] n = 5 -> "5" [] n = 6 -> "6" [] n = 7 -> "7" [] n = 8 -> "8" [] OTHER -> "9"

\* f"{module}.{class}.{fn.__name__}" of the invocation at depth d: the
\* operations are named op1, op2, ...
Inst(d) == <<"o", "p", DigitChar(d)>>

MsgEntityNotFound ==
    <<"E","n","t","i","t","y"," ","n","o","t"," ","f","o","u","n","d">>

\* f"{inst} returned None"
ReturnedNoneText(inst) == inst \o <<" ","r","e","t","u","r","n","e","d"," ","N","o","n","e">>

\* the DatabaseException of raise_on_empty
EmptyResultError(d) ==
    Exc("DatabaseException", MsgEntityNotFound, ReturnedNoneText(Inst(d)), Inst(d))

\* ------------------------------------------------------- raw-query wrapper
MsgNativeSqlError ==
    <<"N","a","t","i","v","e"," ","S","Q","L"," ","e","r","r","o","r">>
MsgQueryTimeout == <<"Q","u","e","r","y"," ","t","i","m","e","o","u","t">>

\* f"{class}.{fn.__name__}" of the raw-query operation
QueryInst == <<"q","r","y">>

\* f"Exceeded {timeout}s"
ExceededText(t) == <<"E","x","c","e","e","d","e","d"," ", DigitChar(t), "s">>

\* query._execute: a SQLAlchemyError becomes a DatabaseException that carries
\* str(exc) and the operation's class and method
NativeSqlError(e) == Exc("DatabaseException", MsgNativeSqlError, e.message, QueryInst)

\* query.wrapper: asyncio.TimeoutError becomes a DatabaseException
QueryTimeoutError(t) == Exc("DatabaseException", MsgQueryTimeout, ExceededText(t), QueryInst)

\* ------------------------------------------------------------------- state
VARIABLES
    ops,        \* the option records of the program's wrapped operations
    stack,      \* the wrapped invocations in flight on the session, outermost first
    tx,         \* session.in_transaction()
    owner,      \* depth of the invocation that opened the transaction, 0: none in flight
    pending,    \* writes of the open transaction, not committed
    committed,  \* writes committed to the store
    ret,        \* the outcome of the invocation that just finished, until its caller takes it
    table,      \* the entity table as the session sees it: id -> row, or None
    dirty,      \* the session holds changes of its user that are not flushed
    call,       \* the last call of a repository operation and its outcome
    decorated,  \* the raw-query operations that query(...) has set up
    store,      \* the grades table of the database: the committed rows
    id_seq,     \* the last value drawn from the sequence of grades.id
    reqs        \* the requests in flight, each with a session of its own

vars == <<ops, stack, tx, owner, pending, committed, ret, table, dirty, call,
          decorated, store, id_seq, reqs>>

\* the state the wrapper's invocations on the one session leave alone: the
\* repository's, the raw-query operations, the database and the requests
repoVars == <<table, dirty, call, decorated, store, id_seq, reqs>>

NoFlight ==
    [orig |-> NoExc, from |-> 0, txAtRaise |-> FALSE, pending |-> 0, rbBy |-> <<>>,
     owner |-> 0]

\* how the last run of the body ended, and session.in_transaction() at that point
Body(kind, val, e, in_transaction) ==
    [kind |-> kind, val |-> val, exc |-> e, tx |-> in_transaction]

NoBody == Body("none", "None", NoExc, FALSE)

\* how an invocation is to leave once the wrapper's awaits are over: by
\* returning val ("ok"), by raising exc ("exc"), or not at all, the body being
\* run for the first time ("enter") or again ("retry")
Exit(kind, val, e, body, flight) ==
    [kind |-> kind, val |-> val, exc |-> e, body |-> body, flight |-> flight]

NoExit == Exit("none", "None", NoExc, NoBody, NoFlight)

\* an invocation: its options, in_transaction() at entry, the retry loop's
\* counters, the writes that were pending when the current run of the body
\* started (carried), the pending writes at the savepoint, what the wrapper
\* did (a call of the session counts from when it is awaited), the calls the
\* wrapper has still to await before or after the body, the first of them
\* being awaited now (todo), and how the invocation goes on after them (exit)
NoFrame ==
    [opt |-> DefaultOptions, tx_before |-> FALSE, attempt |-> 0, runs |-> 0,
     dlFails |-> 0, timedOut |-> FALSE, carried |-> 0, spMark |-> None, did |-> {},
     todo |-> <<>>, exit |-> NoExit]

Idle ==
    [kind |-> "idle", val |-> "None", exc |-> NoExc, frame |-> NoFrame,
     depth |-> 0, body |-> NoBody, flight |-> NoFlight]

Top == stack[Len(stack)]

Pop(s) == SubSeq(s, 1, Len(s) - 1)

\* ------------------------------------------------------- repository state
Ids == 1..MaxIds

\* a row of the entity table: its soft-delete flag
Row(deleted) == <<deleted>>

Tables == [Ids -> {None, Row(FALSE), Row(TRUE)}]

EmptyTable == [i \in Ids |-> None]

\* Pagination(current_page, per_page, total, total_pages, next_page, previous_page)
Pagination(current_page, per_page, total, total_pages, next_page, previous_page) ==
    [current_page |-> current_page, per_page |-> per_page, total |-> total,
     total_pages |-> total_pages, next_page |-> next_page,
     previous_page |-> previous_page]

\* what a call gives back: kind says which of the other fields holds it
\* ("bool", "int", "list", "page", "entity", "None"), or that it raised ("raise")
NoOut ==
    [kind |-> "none", flag |-> FALSE, count |-> 0, rows |-> <<>>,
     meta |-> Pagination(0, 0, 0, 0, None, None), exc |-> NoExc]

\* return v, a value of the kind given; a Page is given as [data, meta]
Returns(kind, v) ==
    CASE kind = "bool" -> [NoOut EXCEPT !.kind = kind, !.flag = v]
      [] kind = "int"  -> [NoOut EXCEPT !.kind = kind, !.count = v]
      [] kind = "list" -> [NoOut EXCEPT !.kind = kind, !.rows = v]
      [] kind = "page" -> [NoOut EXCEPT !.kind = kind, !.rows = v.data, !.meta = v.meta]
      [] kind = "entity" -> [NoOut EXCEPT !.kind = kind, !.rows = <<v>>]
      [] kind = "None" -> [NoOut EXCEPT !.kind = kind]

\* raise e
Raises(e) == [NoOut EXCEPT !.kind = "raise", !.exc = e]

\* the arguments of a call, those an operation does not take left as here
NoArgs ==
    [cls |-> <<>>, id |-> 0, ids |-> <<>>, fields |-> <<>>, where |-> <<>>,
     filters |-> <<>>, field |-> <<>>, values |-> <<>>, pattern |-> <<>>,
     value |-> 0, count |-> 0, page |-> 0, size |-> 0,
     sql |-> <<>>, allow_dangerous |-> FALSE, params |-> <<>>,
     root |-> FALSE, session_attr |-> <<>>, readonly |-> FALSE]

NoCall ==
    [op |-> "none", via |-> "none", args |-> NoArgs, out |-> NoOut, log |-> <<>>,
     tx_before |-> FALSE, dirty_before |-> FALSE, before |-> EmptyTable]

\* the program: its wrapped operations set at most MaxVary options explicitly
Init ==
    /\ \E V \in SUBSET OptionNames :
          /\ Cardinality(V) = MaxVary
          /\ ops = OptionsVarying(V)
    /\ stack = <<>>
    /\ tx = FALSE
    /\ owner = 0
    /\ pending = 0
    /\ committed = 0
    /\ ret = Idle
    /\ table = EmptyTable
    /\ dirty = FALSE
    /\ call = NoCall
    /\ decorated = {}
    /\ store = <<>>
    /\ id_seq = 0
    /\ reqs = <<>>

\* ------------------------------------------------------- session effects
\* the session as it is, and as a statement leaves it (autobegin)
Session == [tx |-> tx, owner |-> owner, pending |-> pending]

Autobegun ==
    [tx |-> TRUE, owner |-> IF tx THEN owner ELSE Len(stack), pending |-> pending]

\* an exception that starts here, the session being as in ss
NewFlight(e, ss) ==
    [orig |-> e, from |-> Len(stack), txAtRaise |-> ss.tx, pending |-> ss.pending,
     rbBy |-> <<>>, owner |-> ss.owner]

Raised(e, ss) == Body("raise", "None", e, ss.tx)

\* ------------------------------------------------- leaving an invocation
Finished(kind, val, e, f, d, body, flight) ==
    [kind |-> kind, val |-> val, exc |-> e, frame |-> f, depth |-> d,
     body |-> body, flight |-> flight]

\* the invocation at the end of s leaves as in exit, the session being as
\* in ss
Leave(s, exit, ss) ==
    LET d == Len(s)
    IN  /\ stack' = Pop(s)
        /\ tx' = ss.tx
        /\ owner' = IF ss.owner = d THEN 0 ELSE ss.owner
        /\ pending' = ss.pending
        /\ ret' = Finished(exit.kind, exit.val, exit.exc,
                           [s[d] EXCEPT !.todo = <<>>, !.exit = NoExit],
                           d, exit.body, exit.flight)

\* The wrapper of the invocation at the end of s, the session being as in ss,
\* has the calls steps to await one after the other, and then leaves as in
\* exit: it awaits the first of them (the coroutine is suspended there), or
\* leaves when there is none
Await(s, steps, exit, ss) ==
    LET d == Len(s)
    IN  IF steps = <<>>
        THEN Leave(s, exit, ss) /\ UNCHANGED committed
        ELSE /\ stack' = [s EXCEPT ![d].todo = steps, ![d].exit = exit,
                                   ![d].did = @ \cup ({steps[1]} \ {"sleep"})]
             /\ ret' = Idle
             /\ tx' = ss.tx
             /\ owner' = ss.owner
             /\ pending' = ss.pending
             /\ UNCHANGED committed

\* The body of the innermost invocation of s returned val and _execute
\* accepted it: the wrapper finishes the transaction work and returns.
\*   root branch: leaving `async with session.begin()` commits;
\*   otherwise: the savepoint, if any, is released, then commit or flush
Complete(s, val) ==
    LET d == Len(s)
        f == s[d]
        body == Body("return", val, NoExc, tx)
        act == AfterBody(f.opt.readonly, SelfStarted(f.tx_before, tx), f.opt.auto_flush)
        steps == IF RootBranch(f.opt.root, f.tx_before) THEN <<"commit">>
                 ELSE (IF f.spMark # None THEN <<"release">> ELSE <<>>)
                        \o (IF act = "none" THEN <<>> ELSE <<act>>)
    IN  Await(s, steps, Exit("ok", val, NoExc, body, NoFlight), Session)

\* The exception e leaves _execute of the innermost invocation of s, the
\* session being as in ss.
\*   root branch: leaving `async with session.begin()` rolls back;
\*   otherwise: the savepoint, if any, is rolled back to, then the except
\*   clauses of the wrapper run
Propagate(s, e, body, flight, ss) ==
    LET d == Len(s)
        f == s[d]
        steps == IF RootBranch(f.opt.root, f.tx_before) THEN <<"rollback">>
                 ELSE (IF f.spMark # None THEN <<"rollback_nested">> ELSE <<>>)
                        \o (IF RollsBack(e.cls, f.tx_before, ss.tx)
                            THEN <<"rollback">> ELSE <<>>)
    IN  Await(s, steps, Exit("exc", "None", e, body, flight), ss)

\* mutant: the session is rolled back before the next attempt
BetweenAttemptsRolledBack(ss) == [ss EXCEPT !.tx = FALSE, !.owner = 0, !.pending = 0]

\* _run_retries, `attempt += 1; await asyncio.sleep(0)`: the session the next
\* attempt starts on is the one the failed attempt left, ss
BetweenAttempts(ss) == ss

\* The body of the innermost invocation of s raised e (by itself, or because a
\* call it made raised): _run_retries counts the attempt and awaits
\* asyncio.sleep(0), to run the body again after it, or lets e go.
Raise(s, e, body, flight, ss) ==
    LET d == Len(s)
        f == s[d]
        dl == IF e.cls = "OperationalError" /\ IsDeadlockMessage(e.message)
              THEN f.dlFails + 1 ELSE f.dlFails
    IN  IF /\ UsesRetries(f.opt.retries)
           /\ e.cls = "OperationalError"
           /\ ~ShouldReraise(f.attempt, f.opt.retries, e.message)
        THEN Await([s EXCEPT ![d].attempt = @ + 1, ![d].dlFails = dl],
                   <<"sleep">>, Exit("retry", "None", e, body, flight),
                   BetweenAttempts(ss))
        ELSE Propagate([s EXCEPT ![d].dlFails = dl], e, body, flight, ss)

\* ----------------------------------------------------------------- actions
InBody == stack # <<>> /\ ret.kind = "idle" /\ Top.todo = <<>>

\* the wrapper of the innermost invocation is suspended at an await of its own
AtAwait == stack # <<>> /\ ret.kind = "idle" /\ Top.todo # <<>>

\* transactional.wrapper up to its first await: a wrapped operation is called,
\* by the session's user or by the body of the innermost invocation.  With
\* isolation or readonly_tx the wrapper awaits session.connection(), then
\* conn.execution_options(isolation_level=...), then conn.execute("SET
\* TRANSACTION READ ONLY").  In the root branch it then awaits the entry of
\* `async with session.begin()`, with a savepoint that of `async with
\* session.begin_nested()`, and the body runs when these are over; with
\* nothing to await the body runs at once.
Enter(o) ==
    /\ ret.kind = "idle"
    /\ ~AtAwait
    /\ Len(stack) < MaxDepth
    /\ o \in ops
    /\ LET tx_before == tx
           isRoot == RootBranch(o.root, tx_before)
           isSp == ~isRoot /\ SavepointBranch(o.savepoint, tx_before)
           isolation == o.isolation \notin {None, <<"">>}
           conn == IF isolation \/ o.readonly_tx
                   THEN <<"connection">>
                          \o (IF isolation THEN <<"isolation">> ELSE <<>>)
                          \o (IF o.readonly_tx THEN <<"read_only">> ELSE <<>>)
                   ELSE <<>>
           entry == conn \o (IF isRoot THEN <<"begin">>
                             ELSE IF isSp THEN <<"begin_nested">> ELSE <<>>)
       IN  stack' = Append(stack,
                 [opt |-> o, tx_before |-> tx_before, attempt |-> 0,
                  runs |-> IF entry = <<>> THEN 1 ELSE 0,
                  dlFails |-> 0, timedOut |-> FALSE, carried |-> pending,
                  spMark |-> None,
                  did |-> IF entry = <<>> THEN {} ELSE {entry[1]},
                  todo |-> entry,
                  exit |-> IF entry = <<>> THEN NoExit
                           ELSE Exit("enter", "None", NoExc, NoBody, NoFlight)])
    /\ UNCHANGED <<ops, tx, owner, pending, committed, ret>>
    /\ UNCHANGED repoVars

\* the body reads through the session: a statement begins a transaction when
\* none is open
BodyRead ==
    /\ InBody
    /\ tx' = Autobegun.tx
    /\ owner' = Autobegun.owner
    /\ UNCHANGED <<ops, stack, pending, committed, ret>>
    /\ UNCHANGED repoVars

\* the body writes through the session (add, delete, update ...)
BodyWrite ==
    /\ InBody
    /\ pending + committed < MaxWork
    /\ tx' = Autobegun.tx
    /\ owner' = Autobegun.owner
    /\ pending' = pending + 1
    /\ UNCHANGED <<ops, stack, committed, ret>>
    /\ UNCHANGED repoVars

\* _run_inner: the body returns val
BodyReturn(val) ==
    /\ InBody
    /\ val \in Results
    /\ IF RejectsEmpty(Top.opt.raise_on_empty, val)
       THEN LET e == EmptyResultError(Len(stack))
            IN  Raise(stack, e, Body("return", val, NoExc, tx),
                      NewFlight(e, Session), Session)
       ELSE Complete(stack, val)
    /\ UNCHANGED ops
    /\ UNCHANGED repoVars

\* the body raises a domain or an unexpected error by itself
BodyRaise(e) ==
    /\ InBody
    /\ e \in DomainErrors \cup UnexpectedErrors
    /\ Raise(stack, e, Raised(e, Session), NewFlight(e, Session), Session)
    /\ UNCHANGED ops
    /\ UNCHANGED repoVars

\* a statement of the body fails in the store: the session has begun its
\* transaction, the store error is raised in the body
BodyStatementFails(e) ==
    /\ InBody
    /\ e \in StoreErrors
    /\ Raise(stack, e, Raised(e, Autobegun), NewFlight(e, Autobegun), Autobegun)
    /\ UNCHANGED ops
    /\ UNCHANGED repoVars

\* the body calls a raw-query operation (query.wrapper) configured with
\* timeout t; out is "ok", "timeout" or "error"
QueryExecute(t, out, e) ==
    /\ InBody
    /\ t \in {None} \cup Timeouts
    /\ e \in StoreErrors
    /\ \/ /\ out = "ok"
          /\ tx' = Autobegun.tx
          /\ owner' = Autobegun.owner
          /\ UNCHANGED <<stack, pending, committed, ret>>
       \/ /\ out = "error"
          /\ Raise(stack, NativeSqlError(e), Raised(NativeSqlError(e), Autobegun),
                   NewFlight(e, Autobegun), Autobegun)
       \/ /\ out = "timeout"
          /\ t # None
          /\ Raise(stack, QueryTimeoutError(t[1]),
                   Raised(QueryTimeoutError(t[1]), Autobegun),
                   NewFlight(QueryTimeoutError(t[1]), Autobegun), Autobegun)
    /\ UNCHANGED ops
    /\ UNCHANGED repoVars

\* The call of the session or of its connection, or the sleep(0), that the
\* wrapper of the innermost invocation awaits is over: connection() begins the
\* session's transaction when none is open, begin opens the transaction,
\* begin_nested sets the savepoint, commit and rollback end the transaction,
\* rolling back to the savepoint drops the writes made since; the wrapper
\* awaits its next call, or the invocation leaves, or the body runs (for the
\* first time, or again).  begin() does not return on a session whose
\* transaction has begun.
Awaited ==
    /\ AtAwait
    /\ ~(Top.todo[1] = "begin" /\ tx)
    /\ LET d == Len(stack)
           f == Top
           step == f.todo[1]
           rest == Tail(f.todo)
           ss == CASE step \in {"commit", "rollback"} ->
                        [tx |-> FALSE, owner |-> 0, pending |-> 0]
                   [] step = "rollback_nested" ->
                        [Session EXCEPT !.pending = f.spMark[1]]
                   [] step = "begin" ->
                        [Session EXCEPT !.tx = TRUE, !.owner = d]
                   [] step = "connection" ->
                        [Session EXCEPT !.tx = TRUE, !.owner = IF tx THEN owner ELSE d]
                   [] OTHER -> Session
           exit == IF step = "rollback"
                   THEN [f.exit EXCEPT !.flight.rbBy = Append(@, d)] ELSE f.exit
           spMark == IF step = "begin_nested" THEN <<pending>> ELSE f.spMark
       IN  /\ committed' = IF step = "commit" THEN committed + pending ELSE committed
           /\ IF rest # <<>>
              THEN /\ stack' = [stack EXCEPT ![d].todo = rest, ![d].exit = exit,
                                             ![d].did = @ \cup {rest[1]}]
                   /\ tx' = ss.tx
                   /\ owner' = ss.owner
                   /\ pending' = ss.pending
                   /\ UNCHANGED ret
              ELSE IF exit.kind \in {"enter", "retry"}
              THEN /\ stack' = [stack EXCEPT ![d].todo = <<>>, ![d].exit = NoExit,
                                             ![d].runs = @ + 1,
                                             ![d].spMark = spMark,
                                             ![d].carried = ss.pending]
                   /\ tx' = ss.tx
                   /\ owner' = ss.owner
                   /\ pending' = ss.pending
                   /\ UNCHANGED ret
              ELSE Leave(stack, exit, ss)
    /\ UNCHANGED ops
    /\ UNCHANGED repoVars

\* The call that the wrapper of the innermost invocation awaits before the
\* body raises: session.begin() raises InvalidRequestError when the session's
\* transaction has begun, which session.connection() has seen to; setting the
\* isolation level of a connection whose transaction has begun (another
\* InvalidRequestError), and executing a plain string
\* (ObjectNotExecutableError), raise or not with the library at hand.  These
\* calls are outside the wrapper's try block: the error leaves the wrapper,
\* the body has not run and the session stays as it is.
AwaitedRaises ==
    /\ AtAwait
    /\ \/ Top.todo[1] = "begin" /\ tx
       \/ Top.todo[1] \in {"isolation", "read_only"}
    /\ LET step == Top.todo[1]
           e == CASE step = "begin" ->
                       Exc("InvalidRequestError",
                           <<"A"," ","t","r","a","n","s","a","c","t","i","o","n"," ","i",
                                 "s"," ","a","l","r","e","a","d","y"," ","b","e","g","u",
                                       "n"," ","o","n"," ","t","h","i","s"," ","S","e","s",
                                             "s","i","o","n",".">>,
                           NoMsg, None)
                  [] step = "isolation" ->
                       Exc("InvalidRequestError",
                           <<"T","h","i","s"," ","c","o","n","n","e","c","t","i","o","n",
                                 " ","h","a","s"," ","a","l","r","e","a","d","y"," ","i",
                                       "n","i","t","i","a","l","i","z","e","d"," ","a"," ",
                                             "S","Q","L","A","l","c","h","e","m","y"," ",
                                                   "T","r","a","n","s","a","c","t","i","o",
                                                         "n","(",")"," ","o","b","j","e",
                                                               "c","t"," ","v","i","a"," ",
                                                                     "b","e","g","i","n",
                                                                           "(",")"," ","o",
                                                                                 "r"," ",
                                                                                       "a",
                                                                                             "u","t","o","b","e","g","i","n",";"," ","i","s","o","l","a","t","i","o","n","_","l","e","v","e","l"," ","m","a","y"," ","n","o","t"," ","b","e"," ","a","l","t","e","r","e","d"," ","u","n","l","e","s","s"," ","r","o","l","l","b","a","c","k","(",")"," ","o","r"," ","c","o","m","m","i","t","(",")"," ","i","s"," ","c","a","l","l","e","d"," ","f","i","r","s","t",".">>,
                           NoMsg, None)
                  [] step = "read_only" ->
                       Exc("ObjectNotExecutableError",
                           <<"N","o","t"," ","a","n"," ","e","x","e","c","u","t","a","b",
                                 "l","e"," ","o","b","j","e","c","t",":"," ","'","S","E",
                                       "T"," ","T","R","A","N","S","A","C","T","I","O","N",
                                             " ","R","E","A","D"," ","O","N","L","Y","'">>,
                           NoMsg, None)
       IN  Leave(stack, Exit("exc", "None", e, NoBody, NewFlight(e, Session)), Session)
    /\ UNCHANGED <<ops, committed>>
    /\ UNCHANGED repoVars

\* _run_timeout: asyncio.wait_for of invocation i expires while its body is in
\* flight.  The innermost coroutine is cancelled (CancelledError is raised at
\* its await); invocation i turns the cancellation into asyncio.TimeoutError.
\* When the innermost coroutine is in its wrapper, at a call of the session
\* or of its connection (before its body ran, or after it), the call is given
\* up, the session stays as it is and the
\* CancelledError leaves the wrapper, whose except clauses do not catch it; at
\* sleep(0) the CancelledError leaves _execute.
Timeout(i) ==
    /\ stack # <<>> /\ ret.kind = "idle"
    /\ i \in 1..Len(stack)
    /\ stack[i].opt.timeout # None
    /\ ~stack[i].timedOut
    /\ \A j \in 1..Len(stack) : ~stack[j].timedOut
    /\ LET d == Len(stack)
           s == [stack EXCEPT ![i].timedOut = TRUE]
           body == Body("timeout", "None", NoExc, tx)
           flight == NewFlight(CancelledError, Session)
       IN  IF Top.todo = <<>>
           THEN IF i = d
                THEN Raise(s, TimeoutError, body, NewFlight(TimeoutError, Session),
                           Session)
                ELSE Raise(s, CancelledError, [body EXCEPT !.kind = "cancelled"],
                           flight, Session)
           ELSE /\ i < d
                /\ IF Top.todo[1] = "sleep"
                   THEN Propagate([s EXCEPT ![d].todo = <<>>, ![d].exit = NoExit],
                                  CancelledError, Top.exit.body, flight, Session)
                   ELSE /\ Leave(s, Exit("exc", "None", CancelledError, Top.exit.body,
                                         flight), Session)
                        /\ UNCHANGED committed
    /\ UNCHANGED ops
    /\ UNCHANGED repoVars

\* the call made by the body returned: the body goes on
ChildReturned ==
    /\ stack # <<>>
    /\ ret.kind = "ok"
    /\ ret' = Idle
    /\ UNCHANGED <<ops, stack, tx, owner, pending, committed>>
    /\ UNCHANGED repoVars

\* the call made by the body raised: the exception goes through the body
\* (no body of the repository catches); the invocation whose wait_for expired
\* raises asyncio.TimeoutError in place of the cancellation
ChildRaised ==
    /\ stack # <<>>
    /\ ret.kind = "exc"
    /\ LET e == IF Top.timedOut /\ ret.exc.cls = "CancelledError"
                THEN TimeoutError ELSE ret.exc
           body == IF Top.timedOut /\ ret.exc.cls = "CancelledError"
                   THEN Body("timeout", "None", NoExc, tx)
                   ELSE IF ret.exc.cls = "CancelledError"
                   THEN Body("cancelled", "None", NoExc, tx)
                   ELSE Raised(e, Session)
       IN  Raise(stack, e, body, ret.flight, Session)
    /\ UNCHANGED ops
    /\ UNCHANGED repoVars

\* the session's user receives the outcome of the outermost invocation
CallerReceives ==
    /\ stack = <<>>
    /\ ret.kind # "idle"
    /\ ret' = Idle
    /\ UNCHANGED <<ops, stack, tx, owner, pending, committed>>
    /\ UNCHANGED repoVars

Next ==
    \/ \E o \in ops : Enter(o)
    \/ BodyRead
    \/ BodyWrite
    \/ \E val \in Results : BodyReturn(val)
    \/ \E e \in DomainErrors \cup UnexpectedErrors : BodyRaise(e)
    \/ \E e \in StoreErrors : BodyStatementFails(e)
    \/ \E t \in {None} \cup Timeouts, out \in {"ok", "error", "timeout"}, e \in StoreErrors :
          QueryExecute(t, out, e)
    \/ \E i \in 1..MaxDepth : Timeout(i)
    \/ Awaited
    \/ AwaitedRaises
    \/ ChildReturned
    \/ ChildRaised
    \/ CallerReceives

Spec == Init /\ [][Next]_vars

\* ================================================================ repository
wrapperVars == <<ops, stack, owner, pending, committed, ret>>

\* ------------------------------------------------------------ entity classes
\* attribute names, as character sequences: the fields of Grade, the flag the
\* soft-delete helpers default to, a method and a class attribute every
\* SQLModel class inherits, a private name, a name no class has, and in
\* `public` the public names dir() gives of every SQLModel class: those of
\* pydantic.BaseModel (version 2, with the methods kept from version 1) and
\* of SQLModel (the repository pins no versions)
Attr ==
    [id         |-> <<"i","d">>,
     grade_name |-> <<"g","r","a","d","e","_","n","a","m","e">>,
     created_at |-> <<"c","r","e","a","t","e","d","_","a","t">>,
     updated_at |-> <<"u","p","d","a","t","e","d","_","a","t">>,
     deleted    |-> <<"d","e","l","e","t","e","d">>,
     model_dump |-> <<"m","o","d","e","l","_","d","u","m","p">>,
     metadata   |-> <<"m","e","t","a","d","a","t","a">>,
     tablename  |-> <<"_","_","t","a","b","l","e","n","a","m","e","_","_">>,
     nope       |-> <<"n","o","p","e">>,
     public     |-> {<<"c","o","n","s","t","r","u","c","t">>,
                    <<"c","o","p","y">>,
                    <<"d","i","c","t">>,
                    <<"f","r","o","m","_","o","r","m">>,
                    <<"j","s","o","n">>,
                    <<"m","e","t","a","d","a","t","a">>,
                    <<"m","o","d","e","l","_","c","o","m","p","u","t","e","d","_","f","i","e","l","d","s">>,
                    <<"m","o","d","e","l","_","c","o","n","f","i","g">>,
                    <<"m","o","d","e","l","_","c","o","n","s","t","r","u","c","t">>,
                    <<"m","o","d","e","l","_","c","o","p","y">>,
                    <<"m","o","d","e","l","_","d","u","m","p">>,
                    <<"m","o","d","e","l","_","d","u","m","p","_","j","s","o","n">>,
                    <<"m","o","d","e","l","_","e","x","t","r","a">>,
                    <<"m","o","d","e","l","_","f","i","e","l","d","s">>,
                    <<"m","o","d","e","l","_","f","i","e","l","d","s","_","s","e","t">>,
                    <<"m","o","d","e","l","_","j","s","o","n","_","s","c","h","e","m","a">>,
                    <<"m","o","d","e","l","_","p","a","r","a","m","e","t","r","i","z","e","d","_","n","a","m","e">>,
                    <<"m","o","d","e","l","_","p","o","s","t","_","i","n","i","t">>,
                    <<"m","o","d","e","l","_","r","e","b","u","i","l","d">>,
                    <<"m","o","d","e","l","_","v","a","l","i","d","a","t","e">>,
                    <<"m","o","d","e","l","_","v","a","l","i","d","a","t","e","_","j","s","o","n">>,
                    <<"m","o","d","e","l","_","v","a","l","i","d","a","t","e","_","s","t","r","i","n","g","s">>,
                    <<"p","a","r","s","e","_","f","i","l","e">>,
                    <<"p","a","r","s","e","_","o","b","j">>,
                    <<"p","a","r","s","e","_","r","a","w">>,
                    <<"s","c","h","e","m","a">>,
                    <<"s","c","h","e","m","a","_","j","s","o","n">>,
                    <<"s","q","l","m","o","d","e","l","_","u","p","d","a","t","e">>,
                    <<"u","p","d","a","t","e","_","f","o","r","w","a","r","d","_","r","e","f","s">>,
                    <<"v","a","l","i","d","a","t","e">>}]

\* class Grade(SQLModel, table=True): its declared fields, and the other
\* names dir(Grade) gives
Grade ==
    [name |-> <<"G","r","a","d","e">>,
     declared |-> {Attr.id, Attr.grade_name, Attr.created_at, Attr.updated_at},
     inherited |-> Attr.public,
     private |-> {Attr.tablename}]

\* an entity class T with the soft-delete flag the helpers default to
\* (deleted_field = "deleted"): the class of the rows of `table`
Item ==
    [name |-> <<"I","t","e","m">>,
     declared |-> {Attr.id, Attr.deleted},
     inherited |-> Attr.public,
     private |-> {Attr.tablename}]

EntityClasses == {Grade, Item}

\* valid_fields: the names of dir(entity_class) that do not start with "_"
\* (hasattr holds of every name dir gives)
ValidFields(E) ==
    {attr \in E.declared \cup E.inherited \cup E.private :
        ~(Len(attr) > 0 /\ attr[1] = "_")}

\* f"Valid fields are: {', '.join(sorted(valid_fields))}": the names in the
\* order of str, by code points
ValidFieldsText(valid_fields) ==
    LET Alphabet ==
            <<"_","a","b","c","d","e","f","g","h","i","j","k","l","m","n","o","p",
              "q","r","s","t","u","v","w","x","y","z">>
        CharRank(c) == CHOOSE i \in 1..Len(Alphabet) : Alphabet[i] = c
        LessName(a, b) ==
            \E i \in 1..(Len(a) + 1) :
                /\ i <= Len(b)
                /\ SubSeq(a, 1, i - 1) = SubSeq(b, 1, i - 1)
                /\ (i = Len(a) + 1 \/ CharRank(a[i]) < CharRank(b[i]))
        RECURSIVE Sorted(_)
        Sorted(names) ==
            IF names = {} THEN <<>>
            ELSE LET least == CHOOSE a \in names : \A b \in names \ {a} : LessName(a, b)
                 IN  <<least>> \o Sorted(names \ {least})
        RECURSIVE Join(_)
        Join(seq) ==
            IF seq = <<>> THEN <<>>
            ELSE IF Len(seq) = 1 THEN seq[1]
            ELSE seq[1] \o <<",", " ">> \o Join(Tail(seq))
    IN  <<"V","a","l","i","d"," ","f","i","e","l","d","s"," ","a","r","e",":"," ">>
          \o Join(Sorted(valid_fields))

\* the details of the InvalidFieldException of each class: valid_fields is
\* the same set at every call on a class
ValidFieldsDetails == [E \in EntityClasses |-> ValidFieldsText(ValidFields(E))]

\* InvalidFieldException(
\*     message=f"Field '{key}' does not exist in the {entity_class.__name__} model",
\*     details=f"Valid fields are: ...")
InvalidFieldError(E, key) ==
    Exc("InvalidFieldException",
        <<"F","i","e","l","d"," ","'">> \o key
          \o <<"'"," ","d","o","e","s"," ","n","o","t"," ","e","x","i","s","t"," ",
               "i","n"," ","t","h","e"," ">>
          \o E.name \o <<" ","m","o","d","e","l">>,
        ValidFieldsDetails[E], None)

\* RepositoryHelpers.validate_fields(entity_class, fields): keys is
\* fields.keys(), in the order of the dict.  Gives what the call gives back:
\* None, or the InvalidFieldException of the first key that is not valid.
validate_fields(E, keys) ==
    LET bad == {i \in 1..Len(keys) : keys[i] \notin ValidFields(E)}
    IN  IF bad = {} THEN Returns("None", None)
        ELSE Raises(InvalidFieldError(E, keys[CHOOSE i \in bad : \A j \in bad : i <= j]))

RECURSIVE SeqsUpTo(_, _)
\* the sequences over S of length at most n
SeqsUpTo(S, n) ==
    IF n = 0 THEN {<<>>}
    ELSE LET shorter == SeqsUpTo(S, n - 1)
         IN  shorter \cup {Append(q, x) : q \in shorter, x \in S}

Range(q) == {q[i] : i \in 1..Len(q)}

\* the key lists of the dicts over pool: at most MaxKeys keys, all distinct
KeyLists(pool) ==
    {q \in SeqsUpTo(pool, MaxKeys) : \A i, j \in 1..Len(q) : i # j => q[i] # q[j]}

\* ------------------------------------------------- the session during a call
\* The session while a call runs: in_transaction(), whether it holds changes
\* that are not flushed, the table as the store has it for this session, the
\* table as it will be once the session's changes are flushed, and the
\* interactions with the store so far ("select", "update", "flush", "commit",
\* "rollback").  The sessions are made with autoflush=False: a statement
\* does not flush.
SessionAtCall ==
    [tx |-> tx, dirty |-> dirty, table |-> table, staged |-> table, log |-> <<>>]

\* await session.exec(stmt): the session begins its transaction when none is
\* open, the statement reaches the store
SessionExec(s, stmt) == [s EXCEPT !.tx = TRUE, !.log = Append(@, stmt)]

\* session.delete(entity), setattr(entity, ...), session.add(entity): the change
\* stays in the session until it is flushed
SessionStage(s, t) == [s EXCEPT !.dirty = TRUE, !.staged = t]

\* await session.flush(): nothing happens when the session holds no change
SessionFlush(s) ==
    IF s.dirty
    THEN [s EXCEPT !.tx = TRUE, !.dirty = FALSE, !.table = s.staged,
                   !.log = Append(@, "flush")]
    ELSE s

\* await session.commit(): flushes, then ends the transaction
SessionCommit(s) ==
    [s EXCEPT !.tx = FALSE, !.dirty = FALSE, !.table = s.staged,
              !.log = Append(@, "commit")]

\* await session.rollback(): the table is again as t0, the one the
\* transaction started from
SessionRollback(s, t0) ==
    [s EXCEPT !.tx = FALSE, !.dirty = FALSE, !.table = t0, !.staged = t0,
              !.log = Append(@, "rollback")]

\* what a body, or a whole call, gives back and the session it leaves
Effect(out, s) == [out |-> out, s |-> s]

\* ------------------------------------------------------------- the wrapper
\* the objects a wrapped function is called on and what their attributes
\* hold, as <<object, attribute, value>>: a BaseRepository holds its session in
\* `session`, a service holds a repository and no session, an AsyncSession
\* has no attribute `session`; "unbound" is a repository built on None
Attributes ==
    {<<"repository", "session", "session">>,
     <<"service", "grade_repository", "repository">>,
     <<"unbound", "session", "None">>}

\* getattr(object, name), "absent" when the object has no such attribute
GetAttr(object, name) ==
    IF \E a \in Attributes : a[1] = object /\ a[2] = name
    THEN (CHOOSE a \in Attributes : a[1] = object /\ a[2] = name)[3]
    ELSE "absent"

\* mutant: the session is never checked
ResolveSessionUnchecked(receiver, root, session_attr) == NoExc

\* the session resolution at the head of the wrapper: the exception it
\* raises, NoExc when the call has an AsyncSession.  session_attr is None or
\* <<name>>; `getattr(self, session_attr)` has no default and raises
\* AttributeError with the interpreter's message, which names the receiver's
\* class (a repository is a BaseRepository, the service a GradeServiceImpl)
\* and the attribute;
\* `getattr(..., "session", None)` gives None for a missing attribute.  In the
\* first message "U+0060" stands for the backquote, a character that a string
\* here cannot hold.
ResolveSession(receiver, root, session_attr) ==
    LET repo == IF root THEN GetAttr(receiver, session_attr[1]) ELSE receiver
        session == GetAttr(repo, "session")
        class == CASE receiver = "service" -> <<"G","r","a","d","e","S","e","r","v","i","c",
              "e","I","m","p","l">>
                   [] receiver = "session" -> <<"A","s","y","n","c","S","e","s","s","i","o",
                         "n">>
                   [] OTHER -> <<"B","a","s","e","R","e","p","o","s","i","t","o","r","y">>
        name == CASE session_attr = <<"grade_repository">> -> <<"g","r","a","d","e","_","r",
              "e","p","o","s","i","t","o","r","y">>
                  [] session_attr = <<"session">> -> <<"s","e","s","s","i","o","n">>
                  [] OTHER -> <<>>
    IN  IF root /\ session_attr \in {None, <<"">>}
        THEN Exc("ValueError",
                 <<"U+0060","s","e","s","s","i","o","n","_","a","t","t","r","U+0060"," ",
                 "m","u","s","t"," ","b","e"," ","p","r","o","v","i","d","e",
                 "d"," ","w","h","e","n"," ","r","o","o","t","=","T","r","u",
                 "e">>,
                 NoMsg, None)
        ELSE IF root /\ repo = "absent"
        THEN Exc("AttributeError",
                 <<"'">> \o class \o <<"'"," ","o","b","j","e","c","t"," ","h","a","s"," ",
                       "n","o"," ","a","t","t","r","i","b","u","t","e"," ",
                             "'">> \o name \o <<"'">>,
                 NoMsg, None)
        ELSE IF session # "session"
        THEN Exc("ValueError",
                 <<"C","o","u","l","d"," ","n","o","t"," ","o","b","t","a","i",
                 "n"," ","a"," ","v","a","l","i","d"," ","A","s","y","n","c",
                 "S","e","s","s","i","o","n">>,
                 NoMsg, None)
        ELSE NoExc

\* await session.begin(), entering `async with session.begin()`
SessionBegin(s) == [s EXCEPT !.tx = TRUE, !.log = Append(@, "begin")]

\* transactional(readonly=...).wrapper around a body, the other options at
\* their defaults: s is the session at the call, body the effect of the body
\* run on s.  The receiver is the first argument of the wrapped function,
\* `self` to the wrapper, which takes `getattr(self, "session", None)` for the
\* session: a BaseRepository ("repository") holds its session there; the
\* static helpers of RepositoryHelpers are called with the AsyncSession itself
\* first ("session"), and an AsyncSession has no attribute `session`, so the
\* wrapper raises ValueError("Could not obtain a valid AsyncSession").
Transactional(receiver, readonly, s, body) ==
    LET SessionError == ResolveSession(receiver, FALSE, None)
    IN  IF SessionError # NoExc THEN Effect(Raises(SessionError), s)
        ELSE IF body.out.kind = "raise"
        THEN IF RollsBack(body.out.exc.cls, s.tx, body.s.tx)
             THEN Effect(body.out, SessionRollback(body.s, s.table))
             ELSE body
        ELSE LET act == AfterBody(readonly, SelfStarted(s.tx, body.s.tx),
                                  DefaultOptions.auto_flush)
             IN  CASE act = "commit" -> Effect(body.out, SessionCommit(body.s))
                   [] act = "flush" -> Effect(body.out, SessionFlush(body.s))
                   [] OTHER -> body

\* ------------------------------------------------------ BaseRepository bodies
\* the table without the rows of the ids in gone
Without(t, gone) == [i \in Ids |-> IF i \in gone THEN None ELSE t[i]]

\* select(entity_class).where(entity_class.id.in_(entity_ids)): the ids of the
\* rows found
SelectIdIn(t, entity_ids) == {i \in Range(entity_ids) : t[i] # None}

\* mutant: the rows found are deleted before they are counted
delete_by_ids_found(s, entity_ids) ==
    IF entity_ids = <<>> THEN Effect(Returns("bool", TRUE), s)
    ELSE LET s1 == SessionExec(s, "select")
             found_ids == SelectIdIn(s1.table, entity_ids)
             s2 == SessionStage(s1, Without(s1.staged, found_ids))
         IN  IF Cardinality(found_ids) # Len(entity_ids)
             THEN Effect(Returns("bool", FALSE), s2)
             ELSE Effect(Returns("bool", TRUE), s2)

\* the body of BaseRepository.delete_by_ids
delete_by_ids(s, entity_ids) ==
    IF entity_ids = <<>> THEN Effect(Returns("bool", TRUE), s)
    ELSE LET s1 == SessionExec(s, "select")
             found_ids == SelectIdIn(s1.table, entity_ids)
         IN  IF Cardinality(found_ids) # Len(entity_ids)
             THEN Effect(Returns("bool", FALSE), s1)
             ELSE Effect(Returns("bool", TRUE),
                         SessionStage(s1, Without(s1.staged, found_ids)))

\* ------------------------------------------------------ where-conditions
\* One entry of a dict of conditions.  The value is a literal (equality), a
\* list (IN) or a dict of operators: gt, gte, lt, lte, like, ne.
\* An operator of a dict is [op, arg, pattern], pattern the operand of like.
Condition(key, kind, v) ==
    [key |-> key, kind |-> kind,
     lit |-> IF kind = "literal" THEN v ELSE 0,
     list |-> IF kind = "list" THEN v ELSE <<>>,
     ops |-> IF kind = "dict" THEN v ELSE {}]

Keys(conds) == [i \in 1..Len(conds) |-> conds[i].key]

\* the value of a column of a row of Items, booleans as 0 and 1
FieldValue(i, row, key) ==
    CASE key = Attr.id -> i
      [] key = Attr.deleted -> IF row[1] THEN 1 ELSE 0

RECURSIVE LikeMatch(_, _)
\* text LIKE pattern, "%" standing for any run of characters and "_" for any
\* one
LikeMatch(text, pattern) ==
    IF pattern = <<>> THEN text = <<>>
    ELSE IF Head(pattern) = "%"
    THEN LikeMatch(text, Tail(pattern))
           \/ (text # <<>> /\ LikeMatch(Tail(text), pattern))
    ELSE /\ text # <<>>
         /\ (Head(pattern) = "_" \/ Head(pattern) = Head(text))
         /\ LikeMatch(Tail(text), Tail(pattern))

\* the condition apply_where_conditions adds for one entry
Satisfies(i, row, cond) ==
    LET v == FieldValue(i, row, cond.key)
        SatisfiesOperator(c) ==
            CASE c.op = "gt" -> v > c.arg
              [] c.op = "gte" -> v >= c.arg
              [] c.op = "lt" -> v < c.arg
              [] c.op = "lte" -> v <= c.arg
              [] c.op = "ne" -> v # c.arg
              [] c.op = "like" -> LikeMatch(<<DigitChar(v)>>, c.pattern)
    IN  CASE cond.kind = "list" -> v \in Range(cond.list)
          [] cond.kind = "dict" -> \A c \in cond.ops : SatisfiesOperator(c)
          [] OTHER -> v = cond.lit

\* RepositoryHelpers.apply_where_conditions, the check: None, or the
\* InvalidFieldException of validate_fields
apply_where_conditions(E, where_conditions) ==
    IF where_conditions = <<>> THEN Returns("None", None)
    ELSE validate_fields(E, Keys(where_conditions))

\* the ids of the rows of t that the equality filters and the where-conditions
\* select (the joins are on other tables and select nothing out here)
Selected(t, filters, where_conditions) ==
    {i \in Ids :
        /\ t[i] # None
        /\ \A k \in 1..Len(filters) :
              FieldValue(i, t[i], filters[k].key) = filters[k].lit
        /\ \A k \in 1..Len(where_conditions) : Satisfies(i, t[i], where_conditions[k])}

\* order_by(entity_class.id)
OrderedById(S) ==
    [k \in 1..Cardinality(S) |-> CHOOSE i \in S : Cardinality({j \in S : j < i}) = k - 1]

\* .offset(offset).limit(size)
Slice(q, offset, size) ==
    SubSeq(q, offset + 1, IF offset + size < Len(q) THEN offset + size ELSE Len(q))

\* ------------------------------------------------------------------ paging
\* `size = 10`
DefaultSize == 10

\* `if page < 1: page = 1`
ClampPage(page) == IF page < 1 THEN 1 ELSE page

\* mutant: a size below 1 becomes 1
ClampSizeToOne(size) == IF size < 1 THEN 1 ELSE size

\* `if size < 1: size = 10`
ClampSize(size) == IF size < 1 THEN DefaultSize ELSE size

\* mutant: the last, partly filled page is not counted
TotalPagesFloor(total_items, size) ==
    IF total_items > 0 THEN total_items \div size ELSE 1

\* `math.ceil(total_items / size) if total_items > 0 else 1`, the quotient
\* one a float holds exactly
TotalPages(total_items, size) ==
    IF total_items > 0 THEN (total_items + size - 1) \div size ELSE 1

\* the two statements of a paging operation and the Page it builds; page and
\* size are the clamped ones
PageOf(s, page, size, filters, where_conditions) ==
    LET s1 == SessionExec(s, "select")
        s2 == SessionExec(s1, "select")
        offset == (page - 1) * size
        found == Selected(s.table, filters, where_conditions)
        entities == Slice(OrderedById(found), offset, size)
        total_items == Cardinality(found)
        total_pages == TotalPages(total_items, size)
        next_page == IF page < total_pages THEN <<page + 1>> ELSE None
        previous_page == IF page > 1 THEN <<page - 1>> ELSE None
        page_info == Pagination(page, size, total_items, total_pages,
                                next_page, previous_page)
    IN  Effect(Returns("page", [data |-> entities, meta |-> page_info]), s2)

\* the body of BaseRepository.get_pageable
get_pageable(s, page, size, where_conditions) ==
    LET checked == apply_where_conditions(Item, where_conditions)
    IN  IF checked.kind = "raise" THEN Effect(checked, s)
        ELSE PageOf(s, ClampPage(page), ClampSize(size), <<>>, where_conditions)

\* the body of BaseRepository.get_pageable_by; kwargs are the equality filters
get_pageable_by(s, page, size, where_conditions, kwargs) ==
    LET valid == validate_fields(Item, Keys(kwargs))
        checked == apply_where_conditions(Item, where_conditions)
    IN  IF valid.kind = "raise" THEN Effect(valid, s)
        ELSE IF checked.kind = "raise" THEN Effect(checked, s)
        ELSE PageOf(s, ClampPage(page), ClampSize(size), kwargs, where_conditions)

\* the body of BaseRepository.find_pageables
find_pageables(s, page, size, where_conditions, filters) ==
    LET valid == IF filters # <<>> THEN validate_fields(Item, Keys(filters))
                 ELSE Returns("None", None)
        checked == apply_where_conditions(Item, where_conditions)
    IN  IF valid.kind = "raise" THEN Effect(valid, s)
        ELSE IF checked.kind = "raise" THEN Effect(checked, s)
        ELSE PageOf(s, ClampPage(page), ClampSize(size), filters, where_conditions)

\* ------------------------------------------------------------ update_by_id
\* the body of BaseRepository.get_by_id
get_by_id(s, entity_id) ==
    LET s1 == SessionExec(s, "select")
    IN  IF entity_id \in Ids /\ s1.table[entity_id] # None
        THEN Effect(Returns("entity", entity_id), s1)
        ELSE Effect(Returns("None", None), s1)

\* `for key, value in update_data.items(): setattr(entity, key, value)` on
\* entity i: the session holds the change of the soft-delete flag
SetData(s, i, keys, value) ==
    IF Attr.deleted \in Range(keys) /\ s.staged[i] # Row(value = 1)
    THEN SessionStage(s, [s.staged EXCEPT ![i] = Row(value = 1)])
    ELSE s

\* mutant: the entity is loaded before the names are checked
update_by_id_loads_first(s, entity_id, keys, value) ==
    LET entity == Transactional("repository", TRUE, s, get_by_id(s, entity_id))
        valid == validate_fields(Item, keys)
    IN  IF valid.kind = "raise" THEN Effect(valid, entity.s)
        ELSE IF entity.out.kind # "entity" THEN Effect(Returns("None", None), entity.s)
        ELSE Effect(Returns("entity", entity_id),
                    SessionExec(SessionFlush(SetData(entity.s, entity_id, keys, value)),
                                "select"))

\* the body of BaseRepository.update_by_id: keys are the keys of update_data,
\* value the value they are given; self.get_by_id is a wrapped call of its own
update_by_id(s, entity_id, keys, value) ==
    LET valid == validate_fields(Item, keys)
        entity == Transactional("repository", TRUE, s, get_by_id(s, entity_id))
    IN  IF valid.kind = "raise" THEN Effect(valid, s)
        ELSE IF entity.out.kind # "entity" THEN Effect(Returns("None", None), entity.s)
        ELSE Effect(Returns("entity", entity_id),
                    SessionExec(SessionFlush(SetData(entity.s, entity_id, keys, value)),
                                "select"))

\* ------------------------------------------------- save_all and find_by_ids
\* the body of BaseRepository.save_all, for n new entities: add_all, flush,
\* then one refresh for each entity; the store gives the new rows the n
\* smallest ids the table does not hold
save_all(s, n) ==
    IF n = 0 THEN Effect(Returns("list", <<>>), s)
    ELSE LET free == OrderedById({i \in Ids : s.staged[i] = None})
             new == {free[k] : k \in 1..n}
             added == SessionStage(s, [i \in Ids |-> IF i \in new THEN Row(FALSE)
                                                      ELSE s.staged[i]])
             flushed == SessionFlush(added)
             refreshed == [flushed EXCEPT !.tx = TRUE,
                                          !.log = @ \o [k \in 1..n |-> "select"]]
         IN  Effect(Returns("list", OrderedById(new)), refreshed)

\* results.all() of a statement that does not order its rows, or not all of
\* them: the rows of the ids in S by the key the statement orders by (0 for
\* all when it has no ORDER BY), rows of one key as the store comes to them,
\* which is the order scan, a sequence of all ids
InStoreOrder(S, key, scan) ==
    LET at(i) == CHOOSE k \in 1..Len(scan) : scan[k] = i
        before(i, j) == key[i] < key[j] \/ (key[i] = key[j] /\ at(i) < at(j))
    IN  [k \in 1..Cardinality(S) |->
            CHOOSE i \in S : Cardinality({j \in S : before(j, i)}) = k - 1]

\* the body of BaseRepository.find_by_ids: the statement has no ORDER BY
find_by_ids(s, entity_ids, scan) ==
    IF entity_ids = <<>> THEN Effect(Returns("list", <<>>), s)
    ELSE LET s1 == SessionExec(s, "select")
         IN  Effect(Returns("list", InStoreOrder(SelectIdIn(s1.table, entity_ids),
                                                 [i \in Ids |-> 0], scan)), s1)

\* the body of BaseRepository.delete_all_by: kwargs are the equality filters;
\* the DELETE changes the rows in the store, rowcount is the number of rows
\* it removed
delete_all_by(s, kwargs) ==
    LET valid == validate_fields(Item, Keys(kwargs))
        hit == Selected(s.table, kwargs, <<>>)
        s1 == SessionExec(s, "delete")
    IN  IF valid.kind = "raise" THEN Effect(valid, s)
        ELSE Effect(Returns("int", Cardinality(hit)),
                    [s1 EXCEPT !.table = Without(s.table, hit),
                               !.staged = Without(s.staged, hit)])

\* the body of BaseRepository.update_all_by: the keys of {**filters,
\* **update_data} are checked in the order of that dict; keys are the keys of
\* update_data, value the value they are given; the UPDATE changes the rows
\* in the store, rowcount is the number of rows the filters select
update_all_by(s, filters, keys, value) ==
    LET merged == Keys(filters)
                    \o SelectSeq(keys, LAMBDA k : k \notin Range(Keys(filters)))
        valid == validate_fields(Item, merged)
        hit == Selected(s.table, filters, <<>>)
        s1 == SessionExec(s, "update")
        Updated(t) ==
            [i \in Ids |-> IF i \in hit /\ Attr.deleted \in Range(keys)
                           THEN Row(value = 1) ELSE t[i]]
    IN  IF valid.kind = "raise" THEN Effect(valid, s)
        ELSE Effect(Returns("int", Cardinality(hit)),
                    [s1 EXCEPT !.table = Updated(s.table), !.staged = Updated(s.staged)])

\* ------------------------------------------------ RepositoryHelpers bodies
\* the rows of the ids in S, as a query ordered by id gives them
Found(s, S) == Effect(Returns("list", OrderedById(S)), SessionExec(s, "select"))

\* the body of RepositoryHelpers.find_all_in_range
find_all_in_range(s, field_name, min_value, max_value) ==
    LET valid == validate_fields(Item, <<field_name>>)
        between == {[op |-> "gte", arg |-> min_value, pattern |-> <<>>],
                    [op |-> "lte", arg |-> max_value, pattern |-> <<>>]}
    IN  IF valid.kind = "raise" THEN Effect(valid, s)
        ELSE Found(s, Selected(s.table, <<>>, <<Condition(field_name, "dict", between)>>))

\* the body of RepositoryHelpers.find_all_like
find_all_like(s, field_name, pattern) ==
    LET valid == validate_fields(Item, <<field_name>>)
        like == {[op |-> "like", arg |-> 0, pattern |-> pattern]}
    IN  IF valid.kind = "raise" THEN Effect(valid, s)
        ELSE Found(s, Selected(s.table, <<>>, <<Condition(field_name, "dict", like)>>))

\* the body of RepositoryHelpers.find_all_in_list
find_all_in_list(s, field_name, values) ==
    LET valid == validate_fields(Item, <<field_name>>)
    IN  IF values = <<>> THEN Effect(Returns("list", <<>>), s)
        ELSE IF valid.kind = "raise" THEN Effect(valid, s)
        ELSE Found(s, Selected(s.table, <<>>, <<Condition(field_name, "list", values)>>))

\* the body of RepositoryHelpers.find_all_not_in_list
find_all_not_in_list(s, field_name, values) ==
    LET valid == validate_fields(Item, <<field_name>>)
        all == {i \in Ids : s.table[i] # None}
    IN  IF values = <<>> THEN Found(s, all)
        ELSE IF valid.kind = "raise" THEN Effect(valid, s)
        ELSE Found(s, all \ Selected(s.table, <<>>,
                                     <<Condition(field_name, "list", values)>>))

\* the body of RepositoryHelpers.find_all_greater_than
find_all_greater_than(s, field_name, value) ==
    LET valid == validate_fields(Item, <<field_name>>)
        greater == {[op |-> "gt", arg |-> value, pattern |-> <<>>]}
    IN  IF valid.kind = "raise" THEN Effect(valid, s)
        ELSE Found(s, Selected(s.table, <<>>, <<Condition(field_name, "dict", greater)>>))

\* the body of RepositoryHelpers.find_all_less_than
find_all_less_than(s, field_name, value) ==
    LET valid == validate_fields(Item, <<field_name>>)
        less == {[op |-> "lt", arg |-> value, pattern |-> <<>>]}
    IN  IF valid.kind = "raise" THEN Effect(valid, s)
        ELSE Found(s, Selected(s.table, <<>>, <<Condition(field_name, "dict", less)>>))

\* the body of RepositoryHelpers.find_all_between_dates: a call of the wrapped
\* static find_all_in_range, the session first
find_all_between_dates(s, field_name, start_date, end_date) ==
    Transactional("session", TRUE, s,
                  find_all_in_range(s, field_name, start_date, end_date))

\* the body of RepositoryHelpers.find_all_ordered_by: the rows the filters
\* select, ordered by the column order_field alone, ascending or descending
find_all_ordered_by(s, order_field, ascending, kwargs, scan) ==
    LET valid == validate_fields(Item, <<order_field>> \o Keys(kwargs))
        S == Selected(s.table, kwargs, <<>>)
        key == [i \in Ids |->
                   IF i \notin S THEN 0
                   ELSE IF ascending THEN FieldValue(i, s.table[i], order_field)
                   ELSE 0 - FieldValue(i, s.table[i], order_field)]
    IN  IF valid.kind = "raise" THEN Effect(valid, s)
        ELSE Effect(Returns("list", InStoreOrder(S, key, scan)), SessionExec(s, "select"))

\* the body of RepositoryHelpers.soft_delete_by_id:
\* setattr(entity, deleted_field, True), a change when the flag was not set,
\* then flush
soft_delete_by_id(s, entity_id, deleted_field) ==
    LET valid == validate_fields(Item, <<deleted_field>>)
        s1 == SessionExec(s, "select")
        s2 == IF s1.staged[entity_id] # Row(TRUE)
              THEN SessionStage(s1, [s1.staged EXCEPT ![entity_id] = Row(TRUE)])
              ELSE s1
    IN  IF valid.kind = "raise" THEN Effect(valid, s)
        ELSE IF entity_id \in Ids /\ s1.table[entity_id] # None
        THEN Effect(Returns("bool", TRUE), SessionFlush(s2))
        ELSE Effect(Returns("bool", FALSE), s1)

\* the body of RepositoryHelpers.restore_by_id:
\* setattr(entity, deleted_field, False), then flush
restore_by_id(s, entity_id, deleted_field) ==
    LET valid == validate_fields(Item, <<deleted_field>>)
        s1 == SessionExec(s, "select")
        s2 == IF s1.staged[entity_id] # Row(FALSE)
              THEN SessionStage(s1, [s1.staged EXCEPT ![entity_id] = Row(FALSE)])
              ELSE s1
    IN  IF valid.kind = "raise" THEN Effect(valid, s)
        ELSE IF entity_id \in Ids /\ s1.table[entity_id] # None
        THEN Effect(Returns("bool", TRUE), SessionFlush(s2))
        ELSE Effect(Returns("bool", FALSE), s1)

\* the body of RepositoryHelpers.bulk_update_field:
\* update(entity_class).where(entity_class.id.in_(entity_ids)).values(...)
\* changes the rows in the store, and the rows the session is to flush stay
\* as the session has them
bulk_update_field(s, entity_ids, field_name, new_value) ==
    LET valid == validate_fields(Item, <<field_name>>)
        hit == SelectIdIn(s.table, entity_ids)
        s1 == SessionExec(s, "update")
        Updated(t) ==
            [i \in Ids |-> IF i \in hit /\ field_name = Attr.deleted
                           THEN Row(new_value = 1) ELSE t[i]]
    IN  IF entity_ids = <<>> THEN Effect(Returns("int", 0), s)
        ELSE IF valid.kind = "raise" THEN Effect(valid, s)
        ELSE Effect(Returns("int", Cardinality(hit)),
                    [s1 EXCEPT !.table = Updated(s.table), !.staged = Updated(s.staged)])

\* ------------------------------------------- save, delete and save_or_update
\* the body of BaseRepository.save for an entity that gets the id i and the
\* soft-delete flag deleted: session.add begins the session's transaction
\* when none is open, then flush and refresh
save(s, i, deleted) ==
    LET added == SessionStage([s EXCEPT !.tx = TRUE],
                              [s.staged EXCEPT ![i] = Row(deleted)])
    IN  Effect(Returns("entity", i), SessionExec(SessionFlush(added), "select"))

\* mutant: the lookup of delete is not a wrapped call of its own
delete_in_one_transaction(s, entity_id) ==
    LET entity == get_by_id(s, entity_id)
    IN  IF entity.out.kind # "entity" THEN Effect(Returns("bool", FALSE), entity.s)
        ELSE Effect(Returns("bool", TRUE),
                    SessionStage([entity.s EXCEPT !.tx = TRUE],
                                 [entity.s.staged EXCEPT ![entity_id] = None]))

\* the body of BaseRepository.delete: self.get_by_id is a wrapped call of its
\* own; session.delete begins the session's transaction when none is open
\* and leaves the DELETE to the next flush
delete(s, entity_id) ==
    LET entity == Transactional("repository", TRUE, s, get_by_id(s, entity_id))
    IN  IF entity.out.kind # "entity" THEN Effect(Returns("bool", FALSE), entity.s)
        ELSE Effect(Returns("bool", TRUE),
                    SessionStage([entity.s EXCEPT !.tx = TRUE],
                                 [entity.s.staged EXCEPT ![entity_id] = None]))

\* the body of BaseRepository.save_or_update for an entity with the id
\* entity_id (0: None) and the soft-delete flag deleted: self.get_by_id and
\* self.save are wrapped calls of their own; an entity without id gets the
\* smallest id the table does not hold
save_or_update(s, entity_id, deleted) ==
    LET existing == Transactional("repository", TRUE, s, get_by_id(s, entity_id))
        changed ==
            IF existing.s.staged[entity_id] # Row(deleted)
            THEN SessionStage(existing.s,
                              [existing.s.staged EXCEPT ![entity_id] = Row(deleted)])
            ELSE existing.s
        free == OrderedById({i \in Ids : s.staged[i] = None})
    IN  IF entity_id = 0
        THEN Transactional("repository", FALSE, s, save(s, free[1], deleted))
        ELSE IF existing.out.kind = "entity"
        THEN Effect(Returns("entity", entity_id),
                    SessionExec(SessionFlush(changed), "select"))
        ELSE Transactional("repository", FALSE, existing.s,
                           save(existing.s, entity_id, deleted))

\* ----------------------------------------------------------- repository calls
\* the arguments the callers pass
Inputs ==
    [pages |-> -1..MaxPage,
     sizes |-> -1..MaxSize,
     ids |-> SeqsUpTo(Ids, MaxLen),
     where |-> {<<>>, <<Condition(Attr.nope, "literal", 1)>>,
                <<Condition(Attr.deleted, "list", <<0>>)>>,
                <<Condition(Attr.id, "dict",
                            {[op |-> "gt", arg |-> 1, pattern |-> <<>>]})>>},
     filters |-> {<<>>, <<Condition(Attr.nope, "literal", 1)>>,
                  <<Condition(Attr.deleted, "literal", 0)>>,
                  <<Condition(Attr.id, "literal", 2),
                    Condition(Attr.deleted, "literal", 0)>>},
     fields |-> KeyLists({Attr.id, Attr.deleted, Attr.grade_name, Attr.model_dump,
                          Attr.tablename, Attr.nope}),
     update_data |-> KeyLists({Attr.deleted, Attr.nope}),
     field |-> {Attr.id, Attr.deleted, Attr.nope},
     values |-> {<<>>, <<1>>, <<1, 2>>},
     grade_names |-> {<<"1","A">>, <<"1","B">>},
     patterns |-> {<<"%">>, <<"1">>},
     vias |-> {"repository", "helpers"},
     scans |-> {q \in SeqsUpTo(Ids, MaxIds) : Range(q) = Ids},
     receivers |-> {"repository", "session", "service", "unbound"},
     session_attrs |-> {None, <<"">>, <<"grade_repository">>, <<"session">>}]

\* a call of operation op, made on the repository or on the helpers while no
\* outcome waits for the caller, is over: the session and the table are as its
\* effect e leaves them
Called(op, via, args, e) ==
    /\ call' = [op |-> op, via |-> via, args |-> args, out |-> e.out,
                log |-> e.s.log, tx_before |-> tx, dirty_before |-> dirty,
                before |-> table]
    /\ table' = e.s.table
    /\ tx' = e.s.tx
    /\ dirty' = e.s.dirty
    /\ UNCHANGED wrapperVars
    /\ UNCHANGED <<decorated, store, id_seq, reqs>>

\* a method of BaseRepository: the wrapper around its body
Repository(readonly, body) == Transactional("repository", readonly, SessionAtCall, body)

\* a wrapped static method of RepositoryHelpers, called with the session first
\* ("helpers"), or by the method of BaseRepository of the same name, which
\* passes self.session first ("repository")
Helper(via, readonly, body) ==
    LET inner == Transactional("session", readonly, SessionAtCall, body)
    IN  IF via = "repository" THEN Repository(readonly, inner) ELSE inner

\* RepositoryHelpers.validate_fields(entity_class, fields), called by itself
ValidateFields(E, keys) ==
    /\ call.op = "none"
    /\ Called("validate_fields", "helpers",
              [NoArgs EXCEPT !.cls = E.name, !.fields = keys],
              Effect(validate_fields(E, keys), SessionAtCall))

\* await repository.delete_by_ids(entity_ids)
DeleteByIds(entity_ids) ==
    /\ call.op = "none"
    /\ Called("delete_by_ids", "repository", [NoArgs EXCEPT !.ids = entity_ids],
              Repository(FALSE, delete_by_ids(SessionAtCall, entity_ids)))

\* a coroutine wrapped with transactional(readonly=..., root=...,
\* session_attr=...), its body one SELECT, awaited on a receiver: the session
\* resolution, then the root branch (begin, body, commit on leaving the
\* block, return) or the rest of the wrapper on the resolved session
WrappedCall(receiver, root, session_attr, readonly) ==
    /\ call.op = "none"
    /\ LET s == SessionAtCall
           SessionError == ResolveSession(receiver, root, session_attr)
           body == Effect(Returns("None", 0), SessionExec(s, "select"))
       IN  Called("wrapped", receiver,
                  [NoArgs EXCEPT !.root = root, !.session_attr = session_attr,
                                 !.readonly = readonly],
                  IF SessionError # NoExc THEN Effect(Raises(SessionError), s)
                  ELSE IF RootBranch(root, s.tx)
                  THEN Effect(body.out,
                              SessionCommit(SessionExec(SessionBegin(s), "select")))
                  ELSE Transactional("repository", readonly, s, body))

\* await repository.delete(entity_id)
Delete(entity_id) ==
    /\ call.op = "none"
    /\ Called("delete", "repository", [NoArgs EXCEPT !.id = entity_id],
              Repository(FALSE, delete(SessionAtCall, entity_id)))

\* await repository.save_or_update(entity), the entity with or without an id
SaveOrUpdate(entity_id, deleted) ==
    /\ call.op = "none"
    /\ entity_id = 0 => \E i \in Ids : table[i] = None
    /\ Called("save_or_update", "repository",
              [NoArgs EXCEPT !.id = entity_id, !.value = IF deleted THEN 1 ELSE 0],
              Repository(FALSE, save_or_update(SessionAtCall, entity_id, deleted)))

\* await repository.update_by_id(entity_id, update_data)
UpdateById(entity_id, keys, value) ==
    /\ call.op = "none"
    /\ Called("update_by_id", "repository",
              [NoArgs EXCEPT !.id = entity_id, !.fields = keys, !.value = value],
              Repository(FALSE, update_by_id(SessionAtCall, entity_id, keys, value)))

\* await repository.get_pageable(page, size, where_conditions=...)
GetPageable(page, size, where_conditions) ==
    /\ call.op = "none"
    /\ Called("get_pageable", "repository",
              [NoArgs EXCEPT !.page = page, !.size = size, !.where = where_conditions],
              Repository(TRUE, get_pageable(SessionAtCall, page, size, where_conditions)))

\* await repository.get_pageable_by(page, size, where_conditions=..., **kwargs)
GetPageableBy(page, size, where_conditions, kwargs) ==
    /\ call.op = "none"
    /\ Called("get_pageable_by", "repository",
              [NoArgs EXCEPT !.page = page, !.size = size, !.where = where_conditions,
                             !.filters = kwargs],
              Repository(TRUE, get_pageable_by(SessionAtCall, page, size,
                                               where_conditions, kwargs)))

\* await repository.find_pageables(page, size, where_conditions=..., filters=...)
FindPageables(page, size, where_conditions, filters) ==
    /\ call.op = "none"
    /\ Called("find_pageables", "repository",
              [NoArgs EXCEPT !.page = page, !.size = size, !.where = where_conditions,
                             !.filters = filters],
              Repository(TRUE, find_pageables(SessionAtCall, page, size,
                                              where_conditions, filters)))

\* await repository.save_all(entities), for n new entities
SaveAll(n) ==
    /\ call.op = "none"
    /\ n <= Cardinality({i \in Ids : table[i] = None})
    /\ Called("save_all", "repository", [NoArgs EXCEPT !.count = n],
              Repository(FALSE, save_all(SessionAtCall, n)))

\* await repository.find_by_ids(entity_ids)
FindByIds(entity_ids, scan) ==
    /\ call.op = "none"
    /\ Called("find_by_ids", "repository", [NoArgs EXCEPT !.ids = entity_ids],
              Repository(TRUE, find_by_ids(SessionAtCall, entity_ids, scan)))

\* await repository.delete_all_by(**kwargs)
DeleteAllBy(kwargs) ==
    /\ call.op = "none"
    /\ Called("delete_all_by", "repository", [NoArgs EXCEPT !.filters = kwargs],
              Repository(FALSE, delete_all_by(SessionAtCall, kwargs)))

\* await repository.update_all_by(filters, update_data), update_data not empty
UpdateAllBy(filters, keys, value) ==
    /\ call.op = "none"
    /\ keys # <<>>
    /\ Called("update_all_by", "repository",
              [NoArgs EXCEPT !.filters = filters, !.fields = keys, !.value = value],
              Repository(FALSE, update_all_by(SessionAtCall, filters, keys, value)))

\* find_all_ordered_by(order_field, ascending, **kwargs)
FindAllOrderedBy(via, order_field, ascending, kwargs, scan) ==
    /\ call.op = "none"
    /\ Called("find_all_ordered_by", via,
              [NoArgs EXCEPT !.field = order_field, !.filters = kwargs,
                             !.value = IF ascending THEN 1 ELSE 0],
              Helper(via, TRUE, find_all_ordered_by(SessionAtCall, order_field,
                                                    ascending, kwargs, scan)))

\* find_all_in_range(field_name, min_value, max_value)
FindAllInRange(via, field_name, min_value, max_value) ==
    /\ call.op = "none"
    /\ Called("find_all_in_range", via,
              [NoArgs EXCEPT !.field = field_name, !.values = <<min_value, max_value>>],
              Helper(via, TRUE, find_all_in_range(SessionAtCall, field_name,
                                                  min_value, max_value)))

\* find_all_between_dates(field_name, start_date, end_date)
FindAllBetweenDates(via, field_name, start_date, end_date) ==
    /\ call.op = "none"
    /\ Called("find_all_between_dates", via,
              [NoArgs EXCEPT !.field = field_name, !.values = <<start_date, end_date>>],
              Helper(via, TRUE, find_all_between_dates(SessionAtCall, field_name,
                                                       start_date, end_date)))

\* find_all_like(field_name, pattern)
FindAllLike(via, field_name, pattern) ==
    /\ call.op = "none"
    /\ Called("find_all_like", via,
              [NoArgs EXCEPT !.field = field_name, !.pattern = pattern],
              Helper(via, TRUE, find_all_like(SessionAtCall, field_name, pattern)))

\* find_all_in_list(field_name, values)
FindAllInList(via, field_name, values) ==
    /\ call.op = "none"
    /\ Called("find_all_in_list", via,
              [NoArgs EXCEPT !.field = field_name, !.values = values],
              Helper(via, TRUE, find_all_in_list(SessionAtCall, field_name, values)))

\* find_all_not_in_list(field_name, values)
FindAllNotInList(via, field_name, values) ==
    /\ call.op = "none"
    /\ Called("find_all_not_in_list", via,
              [NoArgs EXCEPT !.field = field_name, !.values = values],
              Helper(via, TRUE, find_all_not_in_list(SessionAtCall, field_name, values)))

\* find_all_greater_than(field_name, value)
FindAllGreaterThan(via, field_name, value) ==
    /\ call.op = "none"
    /\ Called("find_all_greater_than", via,
              [NoArgs EXCEPT !.field = field_name, !.values = <<value>>],
              Helper(via, TRUE, find_all_greater_than(SessionAtCall, field_name, value)))

\* find_all_less_than(field_name, value)
FindAllLessThan(via, field_name, value) ==
    /\ call.op = "none"
    /\ Called("find_all_less_than", via,
              [NoArgs EXCEPT !.field = field_name, !.values = <<value>>],
              Helper(via, TRUE, find_all_less_than(SessionAtCall, field_name, value)))

\* soft_delete_by_id(entity_id, deleted_field)
SoftDeleteById(via, entity_id, deleted_field) ==
    /\ call.op = "none"
    /\ Called("soft_delete_by_id", via,
              [NoArgs EXCEPT !.id = entity_id, !.field = deleted_field],
              Helper(via, FALSE, soft_delete_by_id(SessionAtCall, entity_id,
                                                   deleted_field)))

\* restore_by_id(entity_id, deleted_field)
RestoreById(via, entity_id, deleted_field) ==
    /\ call.op = "none"
    /\ Called("restore_by_id", via,
              [NoArgs EXCEPT !.id = entity_id, !.field = deleted_field],
              Helper(via, FALSE, restore_by_id(SessionAtCall, entity_id, deleted_field)))

\* bulk_update_field(entity_ids, field_name, new_value)
BulkUpdateField(via, entity_ids, field_name, new_value) ==
    /\ call.op = "none"
    /\ Called("bulk_update_field", via,
              [NoArgs EXCEPT !.ids = entity_ids, !.field = field_name,
                             !.value = new_value],
              Helper(via, FALSE, bulk_update_field(SessionAtCall, entity_ids,
                                                   field_name, new_value)))

\* the caller has taken the outcome of the call
ResultTaken ==
    /\ call.op # "none"
    /\ call' = NoCall
    /\ UNCHANGED <<table, tx, dirty>>
    /\ UNCHANGED wrapperVars
    /\ UNCHANGED <<decorated, store, id_seq, reqs>>

\* a session over a table of Items, with or without a transaction its user
\* opened, with or without changes of its user that are not flushed; the
\* session begins its transaction with the first change it is given
RepoInit ==
    /\ table \in Tables
    /\ tx \in BOOLEAN
    /\ dirty \in BOOLEAN
    /\ dirty => tx
    /\ call = NoCall
    /\ decorated = {}
    /\ store = <<>>
    /\ id_seq = 0
    /\ reqs = <<>>
    /\ ops = OptionsVarying({"readonly"})
    /\ stack = <<>>
    /\ owner = 0
    /\ pending = 0
    /\ committed = 0
    /\ ret = Idle

\* a call is made when no outcome waits for the caller
RepoNext ==
    \/ call.op = "none" /\ \E E \in EntityClasses, keys \in Inputs.fields :
          ValidateFields(E, keys)
    \/ call.op = "none" /\ \E entity_ids \in Inputs.ids : DeleteByIds(entity_ids)
    \/ call.op = "none" /\ \E entity_id \in Ids, keys \in Inputs.update_data, value \in {0, 1} :
          UpdateById(entity_id, keys, value)
    \/ call.op = "none" /\ \E receiver \in Inputs.receivers, root \in BOOLEAN,
                                session_attr \in Inputs.session_attrs, readonly \in BOOLEAN :
          WrappedCall(receiver, root, session_attr, readonly)
    \/ call.op = "none" /\ \E entity_id \in Ids : Delete(entity_id)
    \/ call.op = "none" /\ \E entity_id \in {0} \cup Ids, deleted \in BOOLEAN :
          SaveOrUpdate(entity_id, deleted)
    \/ call.op = "none" /\ \E page \in Inputs.pages, size \in Inputs.sizes, w \in Inputs.where :
          GetPageable(page, size, w)
    \/ call.op = "none" /\ \E page \in Inputs.pages, size \in Inputs.sizes, w \in Inputs.where,
                                k \in Inputs.filters :
          GetPageableBy(page, size, w, k)
    \/ call.op = "none" /\ \E page \in Inputs.pages, size \in Inputs.sizes, w \in Inputs.where,
                                f \in Inputs.filters :
          FindPageables(page, size, w, f)
    \/ call.op = "none" /\ \E n \in 0..MaxLen : SaveAll(n)
    \/ call.op = "none" /\ \E entity_ids \in Inputs.ids, scan \in Inputs.scans :
          FindByIds(entity_ids, scan)
    \/ call.op = "none" /\ \E kwargs \in Inputs.filters : DeleteAllBy(kwargs)
    \/ call.op = "none" /\ \E filters \in Inputs.filters, keys \in Inputs.update_data,
                                value \in {0, 1} :
          UpdateAllBy(filters, keys, value)
    \/ call.op = "none" /\ \E via \in Inputs.vias, f \in Inputs.field, asc \in BOOLEAN,
                                k \in Inputs.filters, scan \in Inputs.scans :
          FindAllOrderedBy(via, f, asc, k, scan)
    \/ call.op = "none" /\ \E via \in Inputs.vias, f \in Inputs.field :
          FindAllInRange(via, f, 1, 2)
    \/ call.op = "none" /\ \E via \in Inputs.vias, f \in Inputs.field :
          FindAllBetweenDates(via, f, 1, 2)
    \/ call.op = "none" /\ \E via \in Inputs.vias, f \in Inputs.field, p \in Inputs.patterns :
          FindAllLike(via, f, p)
    \/ call.op = "none" /\ \E via \in Inputs.vias, f \in Inputs.field, v \in Inputs.values :
          FindAllInList(via, f, v)
    \/ call.op = "none" /\ \E via \in Inputs.vias, f \in Inputs.field, v \in Inputs.values :
          FindAllNotInList(via, f, v)
    \/ call.op = "none" /\ \E via \in Inputs.vias, f \in Inputs.field :
          FindAllGreaterThan(via, f, 1)
    \/ call.op = "none" /\ \E via \in Inputs.vias, f \in Inputs.field :
          FindAllLessThan(via, f, 2)
    \/ call.op = "none" /\ \E via \in Inputs.vias, i \in Ids, f \in {Attr.deleted, Attr.nope} :
          SoftDeleteById(via, i, f)
    \/ call.op = "none" /\ \E via \in Inputs.vias, i \in Ids, f \in {Attr.deleted, Attr.nope} :
          RestoreById(via, i, f)
    \/ call.op = "none" /\ \E via \in Inputs.vias, ids \in Inputs.values,
                                f \in {Attr.deleted, Attr.nope}, v \in {0, 1} :
          BulkUpdateField(via, ids, f, v)
    \/ ResultTaken

RepoSpec == RepoInit /\ [][RepoNext]_vars

\* ======================================================== raw-query wrapper
\* the characters the patterns tell apart, of ASCII: [a-z] and [A-Z] in step,
\* for re.IGNORECASE; \w; \s, which is also what str.strip() removes.
\* "U+000B" and "U+001C" to "U+001F" stand for the vertical tab and the four
\* separators, characters that a string here cannot hold.
Chars ==
    [lower |-> <<"a","b","c","d","e","f","g","h","i","j","k","l","m","n","o","p","q","r",
          "s","t","u","v","w","x","y","z">>,
     upper |-> <<"A","B","C","D","E","F","G","H","I","J","K","L","M","N","O","P","Q","R",
           "S","T","U","V","W","X","Y","Z">>,
     word |-> {"a","b","c","d","e","f","g","h","i","j","k","l","m","n","o","p","q",
               "r","s","t","u","v","w","x","y","z","A","B","C","D","E","F","G","H",
               "I","J","K","L","M","N","O","P","Q","R","S","T","U","V","W","X","Y",
               "Z","0","1","2","3","4","5","6","7","8","9","_"},
     space |-> {" ", "\n", "\t", "\r", "\f", "U+000B", "U+001C", "U+001D",
               "U+001E", "U+001F"}]

\* COMPILED_PATTERNS: pattern.search(s) for each pattern of
\* DANGEROUS_SQL_PATTERNS, numbered as the source lists them; the numbers of
\* the patterns that s holds a match of
\*   1  \b(DROP|ALTER|CREATE|TRUNCATE|DELETE|INSERT|UPDATE)\s+(?!.*WHERE)
\*   2  ;\s*DROP\s+
\*   3  --\s*
\*   4  /\*.*\*/
\*   5  \b(EXEC|EXECUTE|SP_|XP_)\s*\(
\*   6  \b(UNION\s+SELECT|UNION\s+ALL\s+SELECT)
\*   7  @@\w+
DangerousPatterns(s) ==
    LET n == Len(s)
        Upper(c) ==
            IF \E i \in 1..26 : Chars.lower[i] = c
            THEN Chars.upper[CHOOSE i \in 1..26 : Chars.lower[i] = c]
            ELSE c
        \* the text w, in upper case, is at position i of s, whatever the case
        At(i, w) ==
            /\ i >= 1
            /\ i + Len(w) - 1 <= n
            /\ \A k \in 1..Len(w) : Upper(s[i + k - 1]) = w[k]
        \* \b at position i, s[i] being a word character
        Boundary(i) == i = 1 \/ s[i - 1] \notin Chars.word
        \* the positions where a run of at least `least` \s from position i ends
        Spaces(i, least) ==
            {p \in (i + least)..(n + 1) : \A k \in i..(p - 1) : s[k] \in Chars.space}
        \* .*WHERE matches at position p: "." is any character but a newline
        WhereAhead(p) ==
            \E j \in p..n : At(j, <<"W","H","E","R",
                  "E">>) /\ \A k \in p..(j - 1) : s[k] # "\n"
        Statements ==
            {<<"D","R","O","P">>, <<"A","L","T","E","R">>, <<"C","R","E","A","T",
                  "E">>, <<"T","R","U","N","C","A","T","E">>, <<"D","E","L","E","T",
                        "E">>, <<"I","N","S","E","R","T">>, <<"U","P","D","A","T","E">>}
        Procedures == {<<"E","X","E","C">>, <<"E","X","E","C","U","T","E">>, <<"S","P",
              "_">>, <<"X","P","_">>}
        Searched(k) ==
            CASE k = 1 ->
                   \E i \in 1..n, w \in Statements :
                       /\ Boundary(i) /\ At(i, w)
                       /\ \E p \in Spaces(i + Len(w), 1) : ~WhereAhead(p)
              [] k = 2 ->
                   \E i \in 1..n :
                       /\ s[i] = ";"
                       /\ \E p \in Spaces(i + 1, 0) :
                              At(p, <<"D","R","O","P">>) /\ Spaces(p + 4, 1) # {}
              [] k = 3 -> \E i \in 1..n : At(i, <<"-","-">>)
              [] k = 4 ->
                   \E i \in 1..n, j \in 1..n :
                       /\ j >= i + 2
                       /\ At(i, <<"/","*">>) /\ At(j, <<"*","/">>)
                       /\ \A m \in (i + 2)..(j - 1) : s[m] # "\n"
              [] k = 5 ->
                   \E i \in 1..n, w \in Procedures :
                       /\ Boundary(i) /\ At(i, w)
                       /\ \E p \in Spaces(i + Len(w), 0) : p <= n /\ s[p] = "("
              [] k = 6 ->
                   \E i \in 1..n :
                       /\ Boundary(i) /\ At(i, <<"U","N","I","O","N">>)
                       /\ \E p \in Spaces(i + 5, 1) :
                              \/ At(p, <<"S","E","L","E","C","T">>)
                              \/ /\ At(p, <<"A","L","L">>)
                                 /\ \E q \in Spaces(p + 3, 1) : At(q, <<"S","E","L","E","C",
                                       "T">>)
              [] k = 7 ->
                   \E i \in 1..n : At(i, <<"@",
                         "@">>) /\ i + 2 <= n /\ s[i + 2] \in Chars.word
    IN  {k \in 1..7 : Searched(k)}

\* textwrap.dedent(sql).strip(): the lines of blanks emptied, the blanks all
\* other lines begin with removed, then the whitespace at both ends
sql_clean(sql) ==
    LET RECURSIVE Lines(_)
        Lines(t) ==
            IF \A k \in 1..Len(t) : t[k] # "\n" THEN <<t>>
            ELSE LET k == CHOOSE k \in 1..Len(t) :
                              t[k] = "\n" /\ \A j \in 1..(k - 1) : t[j] # "\n"
                 IN  <<SubSeq(t, 1, k - 1)>> \o Lines(SubSeq(t, k + 1, Len(t)))
        lines == Lines(sql)
        Indent(l) ==
            CHOOSE m \in 0..Len(l) :
                /\ \A k \in 1..m : l[k] \in {" ", "\t"}
                /\ m < Len(l) => l[m + 1] \notin {" ", "\t"}
        inked == {i \in 1..Len(lines) : Indent(lines[i]) < Len(lines[i])}
        Common(m) ==
            \A i, j \in inked :
                /\ Indent(lines[i]) >= m
                /\ SubSeq(lines[i], 1, m) = SubSeq(lines[j], 1, m)
        margin ==
            IF inked = {} THEN 0
            ELSE CHOOSE m \in 0..Len(sql) : Common(m) /\ ~Common(m + 1)
        RECURSIVE Joined(_)
        Joined(i) ==
            LET l == IF i \in inked THEN SubSeq(lines[i], margin + 1, Len(lines[i]))
                     ELSE <<>>
            IN  IF i = Len(lines) THEN l ELSE l \o <<"\n">> \o Joined(i + 1)
        text == Joined(1)
        inner == {k \in 1..Len(text) : text[k] \notin Chars.space}
    IN  IF inner = {} THEN <<>>
        ELSE SubSeq(text, CHOOSE a \in inner : \A k \in inner : a <= k,
                          CHOOSE b \in inner : \A k \in inner : b >= k)

\* the query texts, the argument values and the other inputs that the raw-query
\* operations are set up and called with; a value is a str, the int whose
\* digits are v, or a list of the one str v
Sql ==
    LET text ==
            [drop_table |-> <<"D","R","O","P"," ","T","A","B","L","E"," ","u","s","e","r",
                  "s",";">>,
             drop_where |-> <<"D","R","O","P"," ","T","A","B","L","E"," ","u","s","e","r",
                   "s",";"," ","S","E","L","E","C","T"," ","1"," ","W","H","E","R","E"," ",
                         "1"," ","="," ","1">>,
             drop_last |-> <<"S","E","L","E","C","T"," ","1",";"," ","D","R","O","P"," ">>,
             update_last |-> <<" "," "," "," ","S","E","L","E","C","T"," ","1","\n"," "," ",
                   " "," ","u","p","d","a","t","e","\n">>,
             select |-> <<"S","E","L","E","C","T"," ","i","d"," ","F","R","O","M"," ","g",
                   "r","a","d","e","s">>,
             indented |-> <<"\n"," "," "," "," ","S","E","L","E","C","T"," ","i","d","\n",
                   " "," "," "," "," "," ","F","R","O","M"," ","g","r","a","d","e","s",
                         "\n">>,
             by_id |-> <<"S","E","L","E","C","T"," ","i","d"," ","F","R","O","M"," ","g",
                   "r","a","d","e","s"," ","W","H","E","R","E"," ","i","d"," ","="," ",":",
                         "i","d">>,
             delete_where |-> <<"D","E","L","E","T","E"," ","F","R","O","M"," ","g","r","a",
                   "d","e","s"," ","W","H","E","R","E"," ","i","d"," ","="," ",":","i",
                         "d">>,
             delete_lines |-> <<"D","E","L","E","T","E"," ","F","R","O","M"," ","g","r","a",
                   "d","e","s","\n","W","H","E","R","E"," ","i","d"," ","="," ",":","i",
                         "d">>,
             comment |-> <<"S","E","L","E","C","T"," ","1"," ","-","-"," ","o","n","e">>,
             block |-> <<"S","E","L","E","C","T"," ","/","*"," ","o","n","e"," ","*","/",
                   " ","1">>,
             union |-> <<"S","E","L","E","C","T"," ","1"," ","u","n","i","o","n"," ","a",
                   "l","l"," ","s","e","l","e","c","t"," ","2">>,
             version |-> <<"S","E","L","E","C","T"," ","@","@","v","e","r","s","i","o",
                   "n">>,
             exec |-> <<"e","x","e","c"," ","(",":","i","d",")">>,
             injection |-> <<"1",";"," ","D","R","O","P"," ","T","A","B","L","E"," ","u",
                   "s","e","r","s">>,
             plain |-> <<"a","b","c">>,
             dashes |-> <<"a","-","-","b">>,
             drop_blank |-> <<"d","r","o","p"," ">>,
             drop_cr |-> <<"d","r","o","p","\r","x">>,
             select_cr |-> <<" "," ","S","E","L","E","C","T"," ","1",";"," ","d","r","o",
                   "p","\f","\r">>,
             injection_cr |-> <<"1",";","\r","D","R","O","P","\r","T","A","B","L","E"," ",
                   "u","s","e","r","s">>]
        Str(t) == [type |-> "str", v |-> t]
    IN  [text |-> text,
         templates |-> {text.drop_table, text.drop_where, text.drop_last,
                        text.update_last, text.select, text.indented, text.by_id,
                        text.delete_where, text.delete_lines, text.comment,
                        text.block, text.union, text.version, text.exec,
                        text.drop_cr, text.select_cr},
         values |-> {Str(text.injection), Str(text.plain), Str(text.dashes),
                     Str(text.drop_blank), Str(text.injection_cr), [type |-> "int", v |-> <<"7">>],
                     [type |-> "list", v |-> text.injection]},
         signatures |-> {<<>>, <<<<"i","d">>>>, <<<<"i","d">>, <<"n","a","m","e">>>>},
         fetch |-> {"all", "one", "scalar", "none"},
         timeouts |-> {None} \cup Timeouts,
         receivers |-> {"repository", "plain"},
         rows |-> {<<>>, <<1>>, <<1, 2>>}]

\* the exceptions that query_decorator raises by itself
QueryError(kind, text) ==
    CASE kind = "security" ->
           Exc("DatabaseException", <<"P","o","t","e","n","t","i","a","l","l","y"," ","d",
                 "a","n","g","e","r","o","u","s"," ","S","Q","L"," ","p","a","t","t","e",
                       "r","n"," ","d","e","t","e","c","t","e","d">>,
               <<"P","a","t","t","e","r","n"," ","m","a","t","c","h","e","d",":",
                     " ">> \o text, <<"S","Q","L"," ","S","e","c","u","r","i","t","y"," ",
                           "V","a","l","i","d","a","t","i","o","n">>)
      [] kind = "signature" ->
           Exc("DatabaseException", <<"S","Q","L"," ","p","a","r","a","m","e","t","e","r",
                 "s"," ","m","i","s","s","i","n","g"," ","f","r","o","m"," ","f","u","n",
                       "c","t","i","o","n"," ","s","i","g","n","a","t","u","r","e">>,
               <<"M","i","s","s","i","n","g"," ","p","a","r","a","m","e","t","e","r","s",
                     ":"," ">> \o text, <<"S","Q","L"," ","P","a","r","a","m","e","t","e",
                           "r"," ","V","a","l","i","d","a","t","i","o","n">>)
      [] kind = "value" ->
           Exc("DatabaseException", <<"S","u","s","p","i","c","i","o","u","s"," ","S","Q",
                 "L"," ","p","a","t","t","e","r","n"," ","i","n"," ","p","a","r","a","m",
                       "e","t","e","r"," ","v","a","l","u","e">>,
               <<"P","a","r","a","m","e","t","e","r"," ","'">> \o text \o <<"'"," ","c","o",
                     "n","t","a","i","n","s"," ","p","o","t","e","n","t","i","a","l"," ",
                           "i","n","j","e","c","t","i","o","n">>,
               <<"P","a","r","a","m","e","t","e","r"," ","V","a","l","u","e"," ","V","a",
                     "l","i","d","a","t","i","o","n">>)
      [] kind = "session" ->
           Exc("RuntimeError", <<"q","u","e","r","y","(",")",":"," ","'","s","e","l","f",
                 ".","s","e","s","s","i","o","n","'"," ","m","u","s","t"," ","b","e"," ",
                       "a","n"," ","A","s","y","n","c","S","e","s","s","i","o","n">>,
               NoMsg, None)

\* query: `if not allow_dangerous: _validate_sql_security(sql_clean)`, the
\* exceptions the validation can raise.  COMPILED_PATTERNS is built by
\* iterating a set, in an order that changes from one run of the program to
\* the next, so any pattern that matches may be the one reported.
validate_sql_security_never(allow_dangerous, sql) == {}

validate_sql_security(allow_dangerous, sql) ==
    LET pattern ==
            <<<<"\\","b","(","D","R","O","P","|","A","L","T","E","R","|","C","R","E","A",
                  "T","E","|","T","R","U","N","C","A","T","E","|","D","E","L","E","T","E",
                        "|","I","N","S","E","R","T","|","U","P","D","A","T","E",")","\\",
                              "s","+","(","?","!",".","*","W","H","E","R","E",")">>,
              <<";","\\","s","*","D","R","O","P","\\","s","+">>, <<"-","-","\\","s",
                    "*">>, <<"/","\\","*",".","*","\\","*","/">>, <<"\\","b","(","E","X",
                          "E","C","|","E","X","E","C","U","T","E","|","S","P","_","|","X",
                                "P","_",")","\\","s","*","\\","(">>,
              <<"\\","b","(","U","N","I","O","N","\\","s","+","S","E","L","E","C","T","|",
                    "U","N","I","O","N","\\","s","+","A","L","L","\\","s","+","S","E","L",
                          "E","C","T",")">>, <<"@","@","\\","w","+">>>>
    IN  IF allow_dangerous THEN {}
        ELSE {QueryError("security", pattern[k]) : k \in DangerousPatterns(sql)}

\* _validate_parameter_values(params), params the arguments in the order of
\* the signature: the exception raised, NoExc when none is
validate_parameter_values_strings_pass(params) == NoExc

validate_parameter_values(params) ==
    LET suspicious ==
            {i \in 1..Len(params) :
                /\ params[i].value.type = "str"
                /\ DangerousPatterns(params[i].value.v) # {}}
    IN  IF suspicious = {} THEN NoExc
        ELSE QueryError("value",
                        params[CHOOSE i \in suspicious : \A j \in suspicious : i <= j].name)

\* @query(sql, fetch=..., timeout=..., allow_dangerous=...) on a method that
\* takes the parameters sig after self, the first operation the program sets
\* up: the text is cleaned and screened, its :names are looked up in the
\* signature, and the wrapper is what the class gets for the method; no
\* session is at hand
Decorate(sql, allow_dangerous) ==
    /\ call.op = "none"
    /\ decorated = {}
    /\ \E sql_cleaned \in {sql_clean(sql)} :
          LET n == Len(sql_cleaned)
              \* re.findall(r":(\w+)", sql)
              Named(i, j) ==
                  /\ sql_cleaned[i] = ":"
                  /\ j > i
                  /\ \A k \in (i + 1)..j : sql_cleaned[k] \in Chars.word
                  /\ j < n => sql_cleaned[j + 1] \notin Chars.word
              RECURSIVE Join(_)
              Join(q) ==
                  IF Len(q) = 1 THEN q[1] ELSE q[1] \o <<","," ">> \o Join(Tail(q))
              \* the names of a set, joined in the order the set gives them
              Joins(names) ==
                  IF names = {} THEN {}
                  ELSE {Join(q) : q \in {q \in SeqsUpTo(names, Cardinality(names)) :
                                            /\ Len(q) = Cardinality(names)
                                            /\ Range(q) = names}}
              Outcome(out) ==
                  call' = [NoCall EXCEPT !.op = "query", !.args.sql = sql,
                                         !.args.allow_dangerous = allow_dangerous,
                                         !.out = out, !.tx_before = tx]
          IN  \E unsafe \in {validate_sql_security(allow_dangerous, sql_cleaned)},
                 sql_params \in {{SubSeq(sql_cleaned, p[1] + 1, p[2]) :
                                    p \in {p \in (1..n) \X (1..n) : Named(p[1], p[2])}}} :
                 \/ /\ \E e \in unsafe : Outcome(Raises(e))
                    /\ UNCHANGED decorated
                 \/ /\ unsafe = {}
                    /\ \E sig \in Sql.signatures :
                          \/ /\ \E text \in Joins(sql_params \ Range(sig)) :
                                   Outcome(Raises(QueryError("signature", text)))
                             /\ UNCHANGED decorated
                          \/ /\ sql_params \subseteq Range(sig)
                             /\ Outcome([NoOut EXCEPT !.kind = "wrapper"])
                             /\ \E fetch \in Sql.fetch, timeout \in Sql.timeouts :
                                   decorated' = {[sql |-> sql_cleaned, fetch |-> fetch,
                                                  timeout |-> timeout, sig |-> sig,
                                                  allow_dangerous |-> allow_dangerous]}
    /\ UNCHANGED <<table, tx, dirty, store, id_seq, reqs>>
    /\ UNCHANGED wrapperVars

\* query.wrapper: a call of the operation, on a receiver that holds a session
\* ("repository") or none ("plain"), with the arguments values; the store
\* answers the statement with rows, fails it, or does not answer in time
QueryCall(receiver, values) ==
    /\ call.op = "none"
    /\ \E w \in decorated :
          /\ Len(values) = Len(w.sig)
          /\ \E params \in {[i \in 1..Len(w.sig) |->
                               [name |-> w.sig[i], value |-> values[i]]]} :
             \E suspicious \in {validate_parameter_values(params)} :
                LET s == SessionAtCall
                    sent == SessionExec(s, "execute")
                    Over(out, session) ==
                        Called("query.wrapper", receiver,
                               [NoArgs EXCEPT !.sql = w.sql, !.params = params],
                               Effect(out, session))
                IN  IF suspicious # NoExc THEN Over(Raises(suspicious), s)
                    ELSE IF receiver # "repository"
                    THEN Over(Raises(QueryError("session", <<>>)), s)
                    ELSE \/ \E e \in StoreErrors : Over(Raises(NativeSqlError(e)), sent)
                         \/ /\ w.timeout # None
                            /\ Over(Raises(QueryTimeoutError(w.timeout[1])), sent)
                         \/ \E rows \in Sql.rows :
                               CASE w.fetch = "none" -> Over(Returns("None", None), sent)
                                 [] w.fetch = "scalar" ->
                                      IF rows = <<>> THEN Over(Returns("None", None), sent)
                                      ELSE Over(Returns("int", rows[1]), sent)
                                 [] w.fetch = "one" ->
                                      IF rows = <<>> THEN Over(Returns("None", None), sent)
                                      ELSE Over(Returns("entity", rows[1]), sent)
                                 [] OTHER -> Over(Returns("list", rows), sent)

\* a program that sets up a raw-query operation and calls it on a session
QueryInit ==
    /\ table = EmptyTable
    /\ tx \in BOOLEAN
    /\ dirty = FALSE
    /\ call = NoCall
    /\ decorated = {}
    /\ store = <<>>
    /\ id_seq = 0
    /\ reqs = <<>>
    /\ ops = OptionsVarying({"readonly"})
    /\ stack = <<>>
    /\ owner = 0
    /\ pending = 0
    /\ committed = 0
    /\ ret = Idle

QueryNext ==
    \/ \E sql \in Sql.templates, allow_dangerous \in BOOLEAN :
          Decorate(sql, allow_dangerous)
    \/ call.op = "none" /\
       \E receiver \in Sql.receivers, values \in SeqsUpTo(Sql.values, 2) :
          QueryCall(receiver, values)
    \/ ResultTaken

QuerySpec == QueryInit /\ [][QueryNext]_vars

\* ============================================================= create_grade
\* a request slot: where its create_grade call is ("none": no request yet;
\* "exists": the SELECT of exists_by is over and the wrapper's commit is
\* awaited; "save": save is to flush its INSERT; "refresh": the refresh of the
\* row is awaited; "commit": the commit of save's wrapper is awaited; "done"),
\* the name asked for, what exists_by found, its session's in_transaction(),
\* the row it has inserted and not committed and the id the INSERT gave it,
\* the outcome, the calls of the session awaited so far, and the names
\* committed when its SELECT ran
NoReq ==
    [pc |-> "none", name |-> <<>>, exists |-> FALSE, tx |-> FALSE, pending |-> <<>>,
     id |-> 0, out |-> NoOut, log |-> <<>>, found |-> {}]

\* mutant: nothing is ever found
exists_by_never(rows, grade_name) == FALSE

\* BaseRepository.exists_by(grade_name=...) on a session with no changes of
\* its own: SELECT id FROM grades WHERE grade_name = :n over the committed
\* rows, `result.first() is not None`
exists_by(rows, grade_name) == \E i \in 1..Len(rows) : rows[i] = grade_name

\* mutant: the column is not unique
UniqueViolationNever(names, grade_name) == FALSE

\* Column(TEXT, nullable=False, unique=True): a row named grade_name cannot be
\* inserted next to the rows named names
UniqueViolation(names, grade_name) == grade_name \in names

\* create_grade, lines 31-33, on the fresh session of a new request:
\* exists_by awaits its SELECT, which begins the session's transaction
CreateGradeExists(r, n) ==
    /\ reqs[r].pc \in {"none", "done"}
    /\ reqs' = [reqs EXCEPT ![r] =
                    [NoReq EXCEPT !.pc = "exists",
                                  !.name = n,
                                  !.exists = exists_by(store, n),
                                  !.tx = TRUE,
                                  !.log = <<"select">>,
                                  !.found = Range(store)]]
    /\ UNCHANGED <<store, id_seq, table, tx, dirty, call, decorated>>
    /\ UNCHANGED wrapperVars

\* create_grade, lines 31-39: the wrapper of exists_by, having opened the
\* transaction, commits it, and exists_by returns; a name that exists raises
\* ConflictException, which service_handle_exceptions lets through as it is
CreateGradeExistsCommitted(r) ==
    /\ reqs[r].pc = "exists"
    /\ LET existing_grade_name == reqs[r].exists
           act == AfterBody(TRUE, SelfStarted(FALSE, reqs[r].tx),
                            DefaultOptions.auto_flush)
           conflict ==
               Exc("ConflictException", <<"G","r","a","d","e"," ","w","i","t","h"," ","t",
                     "h","i","s"," ","n","a","m","e"," ","a","l","r","e","a","d","y"," ",
                           "e","x","i","s","t","s",".">>,
                   <<"A"," ","g","r","a","d","e"," ","w","i","t","h"," ","n","a","m","e",
                         " ","'">> \o reqs[r].name \o <<"'"," ","a","l","r","e","a","d","y",
                               " ","e","x","i","s","t","s",".">>,
                   None)
       IN  reqs' = [reqs EXCEPT ![r].pc = IF existing_grade_name THEN "done" ELSE "save",
                                ![r].tx = act # "commit",
                                ![r].out = IF existing_grade_name THEN Raises(conflict)
                                           ELSE NoOut,
                                ![r].log = Append(@, act)]
    /\ UNCHANGED <<store, id_seq, table, tx, dirty, call, decorated>>
    /\ UNCHANGED wrapperVars

\* create_grade, line 45, BaseRepository.save up to the flush: the INSERT
\* waits while another session holds an uncommitted row that it would
\* violate the unique constraint with, and fails with IntegrityError when a
\* committed row has the name; the wrapper of save re-raises the error and
\* service_handle_exceptions turns it into a ServerException with the
\* message the class gives by default.  The row gets its id from the sequence
\* of the table when it is inserted; whether an INSERT that fails has used up
\* a value is the database's business (used): PostgreSQL's has.
CreateGradeSave(r, used) ==
    /\ reqs[r].pc = "save"
    /\ id_seq < MaxSeq
    /\ ~UniqueViolation({reqs[o].pending[1] :
                            o \in {o \in 1..MaxReqs : o # r /\ reqs[o].pending # <<>>}},
                        reqs[r].name)
    /\ LET e == Exc("IntegrityError", MsgDuplicate, NoMsg, None)
           rolls == RollsBack(e.cls, reqs[r].tx, TRUE)
           server ==
               Exc("ServerException", <<"A","n"," ","u","n","e","x","p","e","c","t","e","d",
                     " ","s","e","r","v","e","r"," ","e","r","r","o","r"," ","o","c","c",
                           "u","r","r","e","d",".">>,
                   e.message, <<"u","r","n",":","p","r","o","b","l","e","m","-","i","n","s",
                         "t","a","n","c","e",":","c","r","e","a","t","e","_","g","r","a",
                               "d","e">>)
       IN  IF UniqueViolation(Range(store), reqs[r].name)
           THEN /\ reqs' = [reqs EXCEPT ![r].pc = "done",
                                        ![r].tx = ~rolls,
                                        ![r].out = Raises(server),
                                        ![r].log = @ \o (IF rolls
                                                         THEN <<"insert", "rollback">>
                                                         ELSE <<"insert">>)]
                /\ id_seq' = IF used THEN id_seq + 1 ELSE id_seq
           ELSE /\ reqs' = [reqs EXCEPT ![r].pc = "refresh",
                                        ![r].tx = TRUE,
                                        ![r].pending = <<reqs[r].name>>,
                                        ![r].id = id_seq + 1,
                                        ![r].log = Append(@, "insert")]
                /\ id_seq' = id_seq + 1
    /\ UNCHANGED <<store, table, tx, dirty, call, decorated>>
    /\ UNCHANGED wrapperVars

\* BaseRepository.save, line 40: the row is read back from the database
CreateGradeRefresh(r) ==
    /\ reqs[r].pc = "refresh"
    /\ reqs' = [reqs EXCEPT ![r].pc = "commit",
                            ![r].log = Append(@, "select")]
    /\ UNCHANGED <<store, id_seq, table, tx, dirty, call, decorated>>
    /\ UNCHANGED wrapperVars

\* create_grade, lines 45-47: the wrapper of save commits the transaction
\* that save opened and the grade is returned with the id its INSERT gave it
CreateGradeCommit(r) ==
    /\ reqs[r].pc = "commit"
    /\ LET act == AfterBody(FALSE, SelfStarted(FALSE, reqs[r].tx),
                            DefaultOptions.auto_flush)
       IN  /\ store' = IF act = "commit" THEN store \o reqs[r].pending ELSE store
           /\ reqs' = [reqs EXCEPT ![r].pc = "done",
                                   ![r].tx = act # "commit",
                                   ![r].pending = IF act = "commit" THEN <<>> ELSE @,
                                   ![r].out = Returns("entity",
                                                      <<reqs[r].id, reqs[r].name>>),
                                   ![r].log = Append(@, act)]
    /\ UNCHANGED <<id_seq, table, tx, dirty, call, decorated>>
    /\ UNCHANGED wrapperVars

\* the service with an empty grades table and no request yet
GradeInit ==
    /\ store = <<>>
    /\ id_seq = 0
    /\ reqs = [r \in 1..MaxReqs |-> NoReq]
    /\ table = EmptyTable
    /\ tx = FALSE
    /\ dirty = FALSE
    /\ call = NoCall
    /\ decorated = {}
    /\ ops = OptionsVarying({"readonly"})
    /\ stack = <<>>
    /\ owner = 0
    /\ pending = 0
    /\ committed = 0
    /\ ret = Idle

GradeNext ==
    \/ \E r \in 1..MaxReqs, n \in Inputs.grade_names : CreateGradeExists(r, n)
    \/ \E r \in 1..MaxReqs : CreateGradeExistsCommitted(r)
    \/ \E r \in 1..MaxReqs, used \in BOOLEAN : CreateGradeSave(r, used)
    \/ \E r \in 1..MaxReqs : CreateGradeRefresh(r)
    \/ \E r \in 1..MaxReqs : CreateGradeCommit(r)

GradeSpec == GradeInit /\ [][GradeNext]_vars
\* ================================================================== claims
Exited == ret.kind # "idle"

\* the invocation that just finished
F == ret.frame

\* the last run of the body ended in a return that _run_inner let through
BodyAccepted ==
    ret.body.kind = "return" /\ ~(F.opt.raise_on_empty /\ ret.body.val = "None")

DeadlockClassified(e) == e.cls = "OperationalError" /\ IsDeadlockMessage(e.message)

\* The invocation that just finished was cancelled in its wrapper: its body
\* had not run yet, or its last run had returned or raised by itself, and the
\* timeout of an enclosing invocation expired while the wrapper awaited
\* session.connection() or a call on the connection, the entry of begin() or
\* begin_nested(), its commit, flush, rollback, the exit of its savepoint, or
\* sleep(0).  (A cancellation that arrives while the body
\* runs ends the body: its kind is then "cancelled".)
CancelledInWrapper ==
    /\ Exited
    /\ ret.kind = "exc"
    /\ ret.exc.cls = "CancelledError"
    /\ ret.body.kind \in {"none", "return", "raise"}

\* the body of the invocation that just finished has run
BodyRan == F.runs >= 1

\* the calls on the session's connection that the wrapper makes before the
\* body, with isolation or readonly_tx
ConnectionSteps == {"connection", "isolation", "read_only"}

\* The invocation that just finished failed at entry: a call that its wrapper
\* awaited before the body raised, and the body never ran.
FailedAtEntry ==
    /\ Exited
    /\ ret.kind = "exc"
    /\ ret.exc.cls \in {"InvalidRequestError", "ObjectNotExecutableError"}
    /\ ret.body.kind = "none"
    /\ F.runs = 0

\* C1: an invocation with root=True entered with no open transaction runs its
\* body, having called begin, in an open transaction; once the body has run
\* it calls commit exactly when the wrapped execution returned normally, and
\* rollback exactly when it did not.  Unless the invocation is cancelled in
\* its wrapper, its body has run, it returns exactly when it committed, the
\* exception of the body propagates unchanged, and no transaction is open on
\* exit.  (Cancelled before the body, it has called neither commit nor
\* rollback.)
C1_RootScopeCommitsOrRollsBack ==
    /\ \A i \in 1..Len(stack) :
          (stack[i].opt.root /\ ~stack[i].tx_before /\ stack[i].runs >= 1) =>
              /\ "begin" \in stack[i].did
              /\ tx
    /\ (Exited /\ F.opt.root /\ ~F.tx_before) =>
          /\ BodyRan =>
                /\ "begin" \in F.did
                /\ ("commit" \in F.did) <=> BodyAccepted
                /\ ("rollback" \in F.did) <=> ~BodyAccepted
          /\ ~BodyRan =>
                /\ CancelledInWrapper
                /\ F.did \cap {"commit", "rollback"} = {}
          /\ "flush" \notin F.did
          /\ ret.kind = "ok" => BodyAccepted
          /\ ~CancelledInWrapper =>
                /\ BodyRan
                /\ BodyAccepted => ret.kind = "ok"
                /\ ret.body.kind = "raise" =>
                       (ret.kind = "exc" /\ ret.exc = ret.body.exc)
                /\ ~tx
                /\ pending = 0

\* C2: an invocation that finds a transaction open on entry never begins,
\* commits or rolls back a transaction: on normal return it has flushed
\* exactly when auto_flush is set, it calls flush only after its body returned
\* normally, and the transaction is open throughout and on exit, however the
\* invocation ends.
C2_NestedOnlyFlushes ==
    /\ \A i \in 1..Len(stack) : stack[i].tx_before => tx
    /\ (Exited /\ F.tx_before) =>
          /\ F.did \cap {"begin", "commit", "rollback"} = {}
          /\ ret.kind = "ok" => (("flush" \in F.did) <=> F.opt.auto_flush)
          /\ "flush" \in F.did => (BodyAccepted /\ F.opt.auto_flush)
          /\ tx

C2_Witness ==
    /\ Exited /\ F.tx_before /\ ret.depth = 2
    /\ stack # <<>> /\ stack[1].opt.root
    /\ F.opt.root
    /\ ret.kind = "ok" /\ "flush" \in F.did
    /\ pending > 0 /\ tx

\* C3: a non-root invocation entered with no open transaction that returns
\* normally commits the transaction its body left open, whether readonly is
\* set or not, and leaves no transaction open.
C3_SelfStartedCommits ==
    (Exited /\ ~F.opt.root /\ ~F.tx_before /\ ret.kind = "ok") =>
        /\ ret.body.tx => "commit" \in F.did
        /\ "rollback" \notin F.did
        /\ ~tx
        /\ pending = 0

C3_Witness ==
    /\ Exited /\ ~F.opt.root /\ ~F.tx_before /\ ret.kind = "ok"
    /\ F.opt.readonly
    /\ ret.body.tx /\ "commit" \in F.did
    /\ ~tx

\* C4: when the body of a non-root invocation entered with no open
\* transaction raises a store-level or unexpected error while a transaction
\* is open, the wrapper rolls back and no transaction is open after the call
\* (the invocation not being cancelled in its wrapper).
C4_OwnerRollsBackOnStoreError ==
    (/\ Exited /\ ~F.opt.root /\ ~F.tx_before
     /\ ~CancelledInWrapper
     /\ ret.body.kind = "raise" /\ ret.body.tx
     /\ \/ IsSQLAlchemyError(ret.body.exc.cls)
        \/ ret.body.exc \in UnexpectedErrors)
    => ("rollback" \in F.did /\ ~tx)

\* C5: a domain exception raised by the body (invalid field, not found,
\* conflict) reaches the caller as the same exception and, when the invocation
\* owns an open transaction, makes it roll back (the invocation not being
\* cancelled in its wrapper).
C5_DomainErrorPassesAndRollsBack ==
    (/\ Exited /\ ret.body.kind = "raise" /\ ret.body.exc \in DomainErrors
     /\ ~CancelledInWrapper) =>
        /\ ret.kind = "exc" /\ ret.exc = ret.body.exc
        /\ (~F.tx_before /\ ret.body.tx) => ("rollback" \in F.did /\ ~tx)

\* C6: with retries = n, a body that fails k <= n times with a
\* deadlock-classified operational error and then returns has run exactly
\* k + 1 times, and the call returns that result, unless the invocation is
\* cancelled in its wrapper.
C6_RetriesUntilSuccess ==
    (Exited /\ BodyAccepted) =>
        /\ F.dlFails <= F.opt.retries
        /\ F.runs = F.dlFails + 1
        /\ ~CancelledInWrapper => (ret.kind = "ok" /\ ret.val = ret.body.val)

C6_Witness ==
    /\ Exited /\ ret.kind = "ok" /\ ret.val = "row"
    /\ F.opt.retries = 2 /\ F.dlFails = 2 /\ F.runs = 3

\* C7: an error of the body that is not a deadlock-classified operational
\* error is never retried: the body has run once more than the deadlock
\* failures retried before it (once, when there were none), and the error
\* propagates, unless the invocation is cancelled in its wrapper.
C7_OtherErrorsNotRetried ==
    (Exited /\ ret.body.kind = "raise" /\ ~DeadlockClassified(ret.body.exc)) =>
        /\ ret.kind = "exc"
        /\ F.runs = F.dlFails + 1
        /\ ~CancelledInWrapper => ret.exc = ret.body.exc

C7_Witness ==
    /\ Exited /\ ret.kind = "exc"
    /\ F.opt.retries = 2
    /\ ret.exc = Exc("OperationalError", MsgDeadSpaceLock, NoMsg, None)
    /\ F.runs = 1

\* C8: when an exception raised in a nested invocation while a transaction is
\* open has propagated to the session's user, exactly one rollback was
\* performed, by the invocation that opened the transaction.
C8_RollbackExactlyOnceByOwner ==
    (/\ stack = <<>> /\ ret.kind = "exc"
     /\ ret.flight.from >= 2 /\ ret.flight.txAtRaise)
    => (Len(ret.flight.rbBy) = 1 /\ ret.flight.rbBy[1] = ret.flight.owner)

\* C9: a store error raised inside a wrapped operation reaches the session's
\* user as a DatabaseException that carries the original message and the
\* identity of the operation.
C9_StoreErrorWrappedOnce ==
    (stack = <<>> /\ ret.kind = "exc" /\ IsSQLAlchemyError(ret.flight.orig.cls)) =>
        /\ ret.exc.cls = "DatabaseException"
        /\ ret.exc.details = ret.flight.orig.message
        /\ ret.exc.instance # None

\* C10: an invocation whose configured timeout expired raises a domain error
\* that carries the configured timeout value.
C10_TimeoutRaisesDomainError ==
    (Exited /\ F.timedOut) =>
        /\ IsDomainException(ret.exc.cls)
        /\ Contains(ret.exc.details, <<DigitChar(F.opt.timeout[1])>>)

\* the class of the name cls
ClassNamed(cls) == CHOOSE E \in EntityClasses : E.name = cls

\* the call left the table, the session and the store alone
NoStoreInteraction ==
    /\ call.log = <<>>
    /\ table = call.before
    /\ tx = call.tx_before
    /\ dirty = call.dirty_before

\* C11: delete_by_ids is all-or-nothing: it either returns true, and no row
\* of a requested id is left while every other row is as before, or returns
\* false, and the table is as before.
C11_DeleteByIdsAllOrNothing ==
    call.op = "delete_by_ids" =>
        /\ call.out.kind = "bool"
        /\ call.out.flag =>
              /\ \A i \in Range(call.args.ids) : table[i] = None
              /\ \A i \in Ids \ Range(call.args.ids) : table[i] = call.before[i]
        /\ ~call.out.flag => table = call.before

\* existing = {1, 2}, requested = [1, 2, 3]: false, and 1 and 2 remain
C11_Witness ==
    /\ call.op = "delete_by_ids"
    /\ call.args.ids = <<1, 2, 3>>
    /\ call.before[1] # None /\ call.before[2] # None /\ call.before[3] = None
    /\ ~call.out.flag
    /\ table[1] # None /\ table[2] # None

\* C12: delete_by_ids returns true, the rows deleted, exactly when every
\* requested id exists in the table, and false exactly when at least one
\* requested id is not found.
C12_DeleteByIdsTrueIffAllExist ==
    call.op = "delete_by_ids" =>
        /\ call.out.kind = "bool"
        /\ call.out.flag <=> \A i \in Range(call.args.ids) : call.before[i] # None
        /\ call.out.flag => \A i \in Range(call.args.ids) : table[i] = None

\* C13: validate_fields(E, F) succeeds exactly when every key of F is a
\* declared field of E; otherwise it raises InvalidFieldException with the
\* declared fields of E listed in its details; it touches nothing.
C13_ValidateFieldsIffDeclared ==
    call.op = "validate_fields" =>
        LET E == ClassNamed(call.args.cls)
        IN  /\ (call.out.kind = "None") <=> (Range(call.args.fields) \subseteq E.declared)
            /\ call.out.kind # "None" =>
                  /\ call.out.kind = "raise"
                  /\ call.out.exc.cls = "InvalidFieldException"
                  /\ call.out.exc.details = ValidFieldsText(E.declared)
            /\ NoStoreInteraction

\* the call raised InvalidFieldException
RaisedInvalidField ==
    call.out.kind = "raise" /\ call.out.exc.cls = "InvalidFieldException"

\* C14: whenever a repository operation that takes field names from its
\* caller (equality filters, update data, where-conditions, order field)
\* fails with InvalidFieldException, it has sent no query and no write to the
\* store before, and the table is as before the call.
C14_InvalidFieldBeforeAnyQuery ==
    (call.op \notin {"none", "validate_fields"} /\ RaisedInvalidField) =>
        /\ call.log = <<>>
        /\ table = call.before
        /\ tx = call.tx_before
        /\ dirty = call.dirty_before

\* update_by_id of an existing entity with a valid and then an undeclared
\* name, on a session that holds changes
C14_Witness ==
    /\ call.op = "update_by_id"
    /\ call.args.fields = <<Attr.deleted, Attr.nope>>
    /\ call.before[call.args.id] = Row(FALSE) /\ call.args.value = 1
    /\ call.dirty_before
    /\ RaisedInvalidField
    /\ call.log = <<>>
    /\ table = call.before

FinderOps ==
    {"find_all_in_range", "find_all_like", "find_all_in_list", "find_all_not_in_list",
     "find_all_greater_than", "find_all_less_than", "find_all_between_dates"}

\* C15: each range, pattern, list-membership, exclusion, greater-than,
\* less-than and date-range finder checks its field name first: whatever the
\* values it is given, a call that names a field the entity class does not
\* declare raises InvalidFieldException and gives no result.
C15_FindersValidateFieldFirst ==
    (call.op \in FinderOps /\ call.args.field \notin Item.declared) => RaisedInvalidField

\* C16: save_all of no entity and find_by_ids of no id return an empty list
\* and the call sends nothing to the store: no query, no write, no
\* transaction.
C16_EmptyInputNoStoreInteraction ==
    (\/ call.op = "save_all" /\ call.args.count = 0
     \/ call.op = "find_by_ids" /\ call.args.ids = <<>>)
    => (call.out = Returns("list", <<>>) /\ NoStoreInteraction)

\* C17: called on the repository, bulk_update_field of no id returns 0 and
\* find_all_in_list of no value returns an empty list; neither raises, neither
\* queries the store.
C17_EmptyListsThroughRepository ==
    /\ (call.op = "bulk_update_field" /\ call.via = "repository" /\ call.args.ids = <<>>)
          => (call.out = Returns("int", 0) /\ call.log = <<>>)
    /\ (call.op = "find_all_in_list" /\ call.via = "repository" /\ call.args.values = <<>>)
          => (call.out = Returns("list", <<>>) /\ call.log = <<>>)

\* C18: on the repository, soft_delete_by_id of an existing entity returns
\* true and leaves its flag true, whether the flag was set or not, and
\* restore_by_id of an existing entity returns true and leaves its flag false,
\* whether it was set or not; of an id the table does not hold either returns
\* false.
C18_SoftDeleteIdempotent ==
    (/\ call.op \in {"soft_delete_by_id", "restore_by_id"}
     /\ call.via = "repository"
     /\ call.args.field = Attr.deleted)
    => IF call.before[call.args.id] = None
       THEN call.out = Returns("bool", FALSE) /\ table = call.before
       ELSE /\ call.out = Returns("bool", TRUE)
            /\ table = [call.before EXCEPT
                           ![call.args.id] = Row(call.op = "soft_delete_by_id")]

PagingOps == {"get_pageable", "get_pageable_by", "find_pageables"}

\* the page a paging call is to give: the rows that the filters and the
\* conditions select, by id, from row (page - 1) * size on, size of them
RowsOfPage(page, size) ==
    LET all == OrderedById(Selected(call.before, call.args.filters, call.args.where))
        left == Len(all) - (page - 1) * size
    IN  [k \in 1..(IF size < left THEN size ELSE left) |-> all[(page - 1) * size + k]]

\* C19: get_pageable, get_pageable_by and find_pageables take every page
\* below 1 for page 1 and every size below 1 for size 10: current_page and
\* per_page are the clamped values and the rows are those from offset
\* (page - 1) * size on.
C19_PagingClampsPageAndSize ==
    (call.op \in PagingOps /\ ~RaisedInvalidField) =>
        LET page == IF call.args.page < 1 THEN 1 ELSE call.args.page
            size == IF call.args.size < 1 THEN 10 ELSE call.args.size
        IN  /\ call.out.kind = "page"
            /\ call.out.meta.current_page = page
            /\ call.out.meta.per_page = size
            /\ call.out.rows = RowsOfPage(page, size)

\* page 0 of size -1 of a table of three rows: the three rows, as page 1 of
\* size 10
C19_Witness ==
    /\ call.op = "find_pageables"
    /\ call.args.page = 0 /\ call.args.size = -1
    /\ call.out.kind = "page"
    /\ call.out.rows = <<1, 2, 3>>
    /\ call.out.meta.current_page = 1 /\ call.out.meta.per_page = 10

\* C20: in every Page of a paging operation total_pages is ceil(total / size)
\* when total > 0 and 1 otherwise, next_page is page + 1 when page <
\* total_pages and absent otherwise, previous_page is page - 1 when page > 1
\* and absent otherwise.
C20_PageMetadata ==
    (call.op \in PagingOps /\ call.out.kind = "page") =>
        LET m == call.out.meta
        IN  /\ m.total > 0 =>
                  /\ m.total_pages * m.per_page >= m.total
                  /\ (m.total_pages - 1) * m.per_page < m.total
            /\ m.total = 0 => m.total_pages = 1
            /\ m.next_page = (IF m.current_page < m.total_pages
                              THEN <<m.current_page + 1>> ELSE None)
            /\ m.previous_page = (IF m.current_page > 1
                                  THEN <<m.current_page - 1>> ELSE None)

\* three rows by pages of two: the second page is the last
C20_Witness ==
    /\ call.op = "get_pageable"
    /\ call.out.kind = "page"
    /\ call.out.meta.total = 3 /\ call.out.meta.per_page = 2
    /\ call.out.meta.total_pages = 2 /\ call.out.meta.current_page = 2
    /\ call.out.meta.next_page = None /\ call.out.meta.previous_page = <<1>>
    /\ call.out.rows = <<3>>


\* ==================================================== the raw-query wrapper
\* the setting up of a raw-query operation failed with the security-validation
\* error, and nothing else happened: no wrapper exists that could be called,
\* the store was not reached and the session is as it was
RejectedAtSetup ==
    /\ call.out.kind = "raise"
    /\ call.out.exc.cls = "DatabaseException"
    /\ call.out.exc.instance = <<"S","Q","L"," ","S","e","c","u","r","i","t","y"," ","V",
          "a","l","i","d","a","t","i","o","n">>
    /\ decorated = {}
    /\ call.log = <<>>
    /\ tx = call.tx_before

\* C21, as stated: unless allow_dangerous is set, a raw query template that
\* matches any dangerous pattern fails with a security-validation error when
\* the wrapper is set up, before any call is made and without any store access.
C21_RawTemplateRejectedAtSetup ==
    (/\ call.op = "query"
     /\ ~call.args.allow_dangerous
     /\ DangerousPatterns(call.args.sql) # {})
    => RejectedAtSetup

\* C21, amended: unless allow_dangerous is set, a raw query template whose
\* cleaned text (dedented, the whitespace at both ends stripped) matches any
\* dangerous pattern fails with a security-validation error when the wrapper
\* is set up, before any call is made and without any store access.
C21_CleanedTemplateRejectedAtSetup ==
    (/\ call.op = "query"
     /\ ~call.args.allow_dangerous
     /\ DangerousPatterns(sql_clean(call.args.sql)) # {})
    => RejectedAtSetup

\* `DROP TABLE users;` was refused at setup
C21_Witness ==
    /\ call.op = "query"
    /\ call.args.sql = Sql.text.drop_table
    /\ ~call.args.allow_dangerous
    /\ RejectedAtSetup

\* C22: at every call of a raw-query operation, whatever allow_dangerous was
\* set to, a string argument that matches a dangerous pattern fails the call
\* with the parameter-validation error before the session is looked up or
\* used: the statement is not executed and the session is as it was.
C22_ArgumentsScreenedAtEveryCall ==
    (/\ call.op = "query.wrapper"
     /\ \E i \in 1..Len(call.args.params) :
           /\ call.args.params[i].value.type = "str"
           /\ DangerousPatterns(call.args.params[i].value.v) # {})
    => /\ call.out.kind = "raise"
       /\ call.out.exc.cls = "DatabaseException"
       /\ call.out.exc.instance = <<"P","a","r","a","m","e","t","e","r"," ","V","a","l","u",
             "e"," ","V","a","l","i","d","a","t","i","o","n">>
       /\ call.log = <<>>
       /\ tx = call.tx_before

\* an operation set up with allow_dangerous=True and a safe text was called
\* with "1; DROP TABLE users" and failed before its statement was sent
C22_Witness ==
    /\ call.op = "query.wrapper"
    /\ \E w \in decorated : w.allow_dangerous /\ DangerousPatterns(w.sql) = {}
    /\ Len(call.args.params) >= 1
    /\ call.args.params[1].value = [type |-> "str", v |-> Sql.text.injection]
    /\ call.out.kind = "raise"
    /\ call.out.exc.instance = <<"P","a","r","a","m","e","t","e","r"," ","V","a","l","u",
          "e"," ","V","a","l","i","d","a","t","i","o","n">>
    /\ call.log = <<>>

\* ====================================== the transactional wrapper, continued
\* the invocation that just finished ended on a body that returned val
BodyReturned(val) == Exited /\ ret.body.kind = "return" /\ ret.body.val = val

\* the caller of the invocation that just finished got the "Entity not found"
\* DatabaseException of raise_on_empty, or got val back (or the invocation was
\* cancelled in its wrapper)
EmptyRuleApplied(val) ==
    \/ CancelledInWrapper
    \/ IF F.opt.raise_on_empty
       THEN ret.kind = "exc" /\ ret.exc = EmptyResultError(ret.depth)
       ELSE ret.kind = "ok" /\ ret.val = val

\* C24, as stated: with raise_on_empty set, a wrapped operation whose body
\* returns an empty or an absent result raises the not-found error although no
\* lower-level error occurred; with it unset the same result is returned.
C24_EmptyOrAbsentResultRejected ==
    \A val \in {"None", "empty"} : BodyReturned(val) => EmptyRuleApplied(val)

\* C24, amended: with raise_on_empty set, a wrapped operation whose body
\* returns an absent result (None) raises the "Entity not found"
\* DatabaseException although no lower-level error occurred; with it unset the
\* same result is returned to the caller.
C24_AbsentResultRejected == BodyReturned("None") => EmptyRuleApplied("None")

\* a body returned None under raise_on_empty and the caller got the error
C24_Witness ==
    /\ BodyReturned("None")
    /\ F.opt.raise_on_empty
    /\ ret.kind = "exc"
    /\ ret.exc.message = MsgEntityNotFound

C26_AtMostRetriesPlusOneRuns ==
    /\ \A i \in 1..Len(stack) : stack[i].runs <= stack[i].opt.retries + 1
    /\ Exited =>
           /\ F.runs <= F.opt.retries + 1
           /\ F.dlFails = F.opt.retries + 1 =>
                  /\ ret.kind = "exc"
                  /\ ret.body.kind = "raise"
                  /\ DeadlockClassified(ret.body.exc)
                  /\ ~CancelledInWrapper => ret.exc = ret.body.exc

\* a call with retries = 2 failed three times with a deadlock error and the
\* third error reached the caller
C26_Witness ==
    /\ Exited
    /\ F.opt.retries = 2
    /\ F.runs = 3
    /\ F.dlFails = 3
    /\ ret.kind = "exc"
    /\ DeadlockClassified(ret.exc)

\* C27: from a failed attempt to the next one the wrapper takes two steps, it
\* counts the attempt and awaits sleep(0), and it starts the body again when
\* the sleep is over.  Both leave the pending writes and the committed ones as
\* they are, end no transaction, and add nothing to what the wrapper did on
\* the session: the next attempt starts in the transaction, and the savepoint,
\* of the failed one.
C27_NothingBetweenAttempts ==
    [][(/\ stack # <<>>
        /\ Len(stack') = Len(stack)
        /\ \/ stack'[Len(stack)].attempt = Top.attempt + 1
           \/ Top.runs >= 1 /\ stack'[Len(stack)].runs = Top.runs + 1)
       => /\ pending' = pending
          /\ committed' = committed
          /\ tx => tx'
          /\ owner # 0 => owner' = owner
          /\ stack'[Len(stack)].did = Top.did
          /\ stack'[Len(stack)].spMark = Top.spMark
          /\ stack'[Len(stack)].tx_before = Top.tx_before
          /\ ret' = Idle
          /\ stack'[Len(stack)].attempt = Top.attempt + 1 =>
                 /\ stack'[Len(stack)].todo = <<"sleep">>
                 /\ stack'[Len(stack)].runs = Top.runs
          /\ stack'[Len(stack)].runs = Top.runs + 1 =>
                 /\ Top.todo = <<"sleep">>
                 /\ stack'[Len(stack)].todo = <<>>
                 /\ stack'[Len(stack)].attempt = Top.attempt
                 /\ stack'[Len(stack)].carried = pending]_vars

\* a second attempt has started with a write of the failed first attempt
\* pending, in the transaction that attempt opened
C27_Witness ==
    /\ Len(stack) = 1
    /\ ret.kind = "idle"
    /\ ~Top.tx_before
    /\ Top.attempt = 1
    /\ Top.carried = 1
    /\ pending = 1
    /\ tx

\* ============================================================= create_grade
\* the create_grade call of slot r had the name n and returned the grade
Created(r, n) == reqs[r].name = n /\ reqs[r].out.kind = "entity"

\* C23: once create_grade(n) has succeeded, exists_by(grade_name=n) is true,
\* and a create_grade(n) whose SELECT runs afterwards finds the grade and
\* raises the conflict error without having inserted anything: it awaits its
\* SELECT and the commit of exists_by and nothing else.
C23_LaterCreateConflicts ==
    \A r \in 1..MaxReqs :
        /\ reqs[r].out.kind = "entity" => exists_by(store, reqs[r].name)
        /\ (reqs[r].pc # "none" /\ reqs[r].name \in reqs[r].found) =>
               /\ reqs[r].exists
               /\ reqs[r].pc \in {"exists", "done"}
               /\ reqs[r].pc = "done" =>
                      /\ reqs[r].out.kind = "raise"
                      /\ reqs[r].out.exc.cls = "ConflictException"
                      /\ reqs[r].log = <<"select", "commit">>
               /\ reqs[r].pc = "exists" => reqs[r].log = <<"select">>
               /\ reqs[r].pending = <<>>
               /\ reqs[r].id = 0

\* one call created the grade, a call for the same name that began after
\* that got the conflict error
C23_Witness ==
    \E r, o \in 1..MaxReqs :
        /\ r # o
        /\ Created(r, reqs[o].name)
        /\ reqs[o].name \in reqs[o].found
        /\ reqs[o].out.kind = "raise"
        /\ reqs[o].out.exc.cls = "ConflictException"

\* C30: however two create_grade calls for the same name on two sessions
\* interleave, the table never holds two committed grades with that name and
\* at most one of the calls returns the grade.
C30_OneCreateWinsPerName ==
    /\ \A i, j \in 1..Len(store) : i # j => store[i] # store[j]
    /\ \A r, o \in 1..MaxReqs : (r # o /\ Created(r, reqs[o].name)) => ~Created(o, reqs[o].name)

\* two calls for one name overlapped: both found no such grade, one
\* committed its row and returned, the other failed at its INSERT
C30_Witness ==
    \E r, o \in 1..MaxReqs :
        /\ r # o
        /\ Created(r, reqs[o].name)
        /\ reqs[o].name \notin reqs[o].found
        /\ reqs[o].pc = "done"
        /\ reqs[o].out.kind = "raise"
        /\ reqs[o].out.exc.cls = "ServerException"
        /\ Len(store) = 1

\* the operations of BaseRepository whose body starts with self.get_by_id
LookupFirstOps == {"delete", "update_by_id", "save_or_update"}

\* C28: when delete, update_by_id or save_or_update is entered with no open
\* transaction and starts with its lookup (get_by_id, a wrapped call on the
\* same session), the lookup's transaction is committed straight after the
\* lookup, a later write reaches the table in a further transaction that the
\* outer call commits, and no transaction stays open; entered inside a
\* caller's transaction, lookup and write stay in it and nothing is committed.
C28_LookupAndWriteInSeparateTransactions ==
    (/\ call.op \in LookupFirstOps
     /\ call.via = "repository"
     /\ call.log # <<>>
     /\ call.log[1] = "select") =>
        LET log == call.log
            n == Len(log)
        IN  IF call.tx_before
            THEN tx /\ \A k \in 1..n : log[k] # "commit"
            ELSE /\ n >= 2 /\ log[2] = "commit"
                 /\ table # call.before => (n > 2 /\ log[n] = "commit")
                 /\ \A k \in 3..n : log[k] = "flush" => log[n] = "commit"
                 /\ ~tx

\* delete of a row that is there, no transaction open before: the lookup
\* and its commit, then the commit that removes the row
C28_Witness ==
    /\ call.op = "delete"
    /\ ~call.tx_before
    /\ call.out.kind = "bool" /\ call.out.flag = TRUE
    /\ call.log = <<"select", "commit", "commit">>
    /\ call.before[call.args.id] # None
    /\ table[call.args.id] = None
    /\ ~tx

\* the call is one for which no valid session can be resolved: root=True
\* without a session_attr, or the object asked for its session (the receiver,
\* under root the sub-object the receiver holds under session_attr) is not
\* there or has no attribute `session` or one that is not an AsyncSession
Unresolvable ==
    LET a == call.args.session_attr
        asked == IF call.args.root THEN GetAttr(call.via, a[1]) ELSE call.via
    IN  /\ call.op = "wrapped"
        /\ IF call.args.root /\ a \in {None, <<"">>} THEN TRUE
           ELSE GetAttr(asked, "session") # "session"

\* under root the receiver has no attribute of the name session_attr
NoSuchAttribute ==
    /\ call.op = "wrapped"
    /\ call.args.root
    /\ call.args.session_attr \notin {None, <<"">>}
    /\ GetAttr(call.via, call.args.session_attr[1]) = "absent"

\* C29 as stated: a wrapped call for which no valid session can be resolved
\* raises ValueError; the body has not run and the session has begun,
\* flushed, committed and rolled back nothing: its transaction, its unflushed
\* changes and the table are as before the call.
C29_UnresolvedSessionRaisesValueError ==
    Unresolvable =>
        /\ call.out.kind = "raise"
        /\ call.out.exc.cls = "ValueError"
        /\ call.log = <<>>
        /\ tx = call.tx_before
        /\ dirty = call.dirty_before
        /\ table = call.before

\* C29, amended: a wrapped call for which no valid session can be resolved
\* raises AttributeError when under root the receiver has no attribute of the
\* name session_attr, and ValueError otherwise; the body has not run and the
\* session has begun, flushed, committed and rolled back nothing: its
\* transaction, its unflushed changes and the table are as before the call.
C29_UnresolvedSessionRaisesUntouched ==
    Unresolvable =>
        /\ call.out.kind = "raise"
        /\ call.out.exc.cls = IF NoSuchAttribute THEN "AttributeError" ELSE "ValueError"
        /\ call.log = <<>>
        /\ tx = call.tx_before
        /\ dirty = call.dirty_before
        /\ table = call.before

\* a service, which holds no session, called without root while a transaction
\* is open and changes wait for a flush
C29_Witness ==
    /\ Unresolvable
    /\ call.via = "service" /\ ~call.args.root
    /\ call.out.kind = "raise" /\ call.out.exc.cls = "ValueError"
    /\ call.tx_before /\ call.dirty_before
    /\ tx /\ dirty /\ call.log = <<>>
====
